---- MODULE Spec2Model ----
(***************************************************************************)
(* Sanchara event tracker: the event entity, the two storage backends      *)
(* (InMemoryEventRepository and MongoEventRepository), the EventService    *)
(* business rules and the events routes, as a state machine.               *)
(*                                                                         *)
(* Both backends are driven side by side by the same calls: memEvents is   *)
(* InMemoryEventRepository.events, mongoDocs is the Mongo collection.      *)
(* The id of the k-th created event is k in both (uuid4 / ObjectId values  *)
(* are opaque to every caller).                                            *)
(*                                                                         *)
(* Optional values: None is Python's None / BSON null, Some(v) a value.    *)
(* Modelled fields: user_id, title, category, start_date, end_date, notes, *)
(* status, priority, timeline_phase, is_financial, savings_target,         *)
(* amount_saved, id, created_at, updated_at, deleted_at.  description,     *)
(* estimated_cost, actual_cost and linked_event_ids are carried by the     *)
(* code exactly like notes (stored, returned, never read) and are left out.*)
(***************************************************************************)
EXTENDS Integers, Sequences, FiniteSets, TLC

VARIABLES memEvents, mongoDocs, clock, last, app, inflight

vars == <<memEvents, mongoDocs, clock, last, app, inflight>>

----------------------------------------------------------------------------
(* Bounds of the model *)

MaxEvents == 2
MaxClock == 3
MaxDate == 4
DaysPerYear == 2
MaxPageSize == 2
MaxPage == 2

----------------------------------------------------------------------------
(* Values *)

None == <<>>
Some(v) == <<v>>

Users == {"rupa", "alex"}
Dates == 1..MaxDate
Today == 2

Statuses == {"planned", "in-progress", "completed"}
Priorities == {"low", "medium", "high", "critical"}

PRIORITY_RANK ==
    [p \in Priorities |->
        CASE p = "low" -> 1 [] p = "medium" -> 2 [] p = "high" -> 3 [] p = "critical" -> 4]

UpdateFields ==
    {"title", "category", "start_date", "end_date", "notes", "status", "priority",
     "timeline_phase", "is_financial", "savings_target", "amount_saved"}

DateFields == {"start_date", "end_date"}

(* date.year, date.isoformat() and date.fromisoformat(): a date is a day     *)
(* number, its ISO text the pair <<year, day in year>>, which Mongo compares *)
(* as text (lexicographically).                                              *)
Year(d) == (d - 1) \div DaysPerYear
isoformat(d) == <<Year(d), d - Year(d) * DaysPerYear>>
fromisoformat(s) == s[1] * DaysPerYear + s[2]
Jan1(y) == y * DaysPerYear + 1
StrLess(a, b) == a[1] < b[1] \/ (a[1] = b[1] /\ a[2] < b[2])

Min(a, b) == IF a <= b THEN a ELSE b

(* model_copy(update=...): the fields of upd replace those of rec, unvalidated *)
model_copy(rec, upd) ==
    [k \in DOMAIN rec |-> IF k \in DOMAIN upd THEN upd[k] ELSE rec[k]]

----------------------------------------------------------------------------
(* Event entity and validators (app/models/event.py) *)

validate_dates(e) ==
    ~(e.end_date # None /\ e.end_date[1] < e.start_date[1])

(* Field validation shared by EventCreate and Event (EventBase) *)
EventBase_valid(e) ==
    /\ e.title # None
    /\ e.category # None
    /\ e.start_date # None
    /\ e.status # None /\ e.status[1] \in Statuses
    /\ e.priority # None /\ e.priority[1] \in Priorities
    /\ e.is_financial # None
    /\ (e.savings_target # None => e.savings_target[1] >= 0)
    /\ (e.amount_saved # None => e.amount_saved[1] >= 0)
    /\ validate_dates(e)

(* EventUpdate: every field optional, each checked on its own; no cross-field rule *)
EventUpdate_valid(u) ==
    /\ DOMAIN u \subseteq UpdateFields
    /\ ("status" \in DOMAIN u /\ u.status # None => u.status[1] \in Statuses)
    /\ ("priority" \in DOMAIN u /\ u.priority # None => u.priority[1] \in Priorities)
    /\ ("savings_target" \in DOMAIN u /\ u.savings_target # None => u.savings_target[1] >= 0)
    /\ ("amount_saved" \in DOMAIN u /\ u.amount_saved # None => u.amount_saved[1] >= 0)

(* model_dump(exclude_unset=True): the fields the request supplied.  A field  *)
(* left at None that was not supplied is not part of the partial.             *)
model_dump_exclude_unset(u) == u

(* model_dump(mode="json"): dates become ISO text *)
model_dump_json(u) ==
    [k \in DOMAIN u |->
        IF k \in DateFields /\ u[k] # None THEN Some(isoformat(u[k][1])) ELSE u[k]]

(* Event.savings_progress_pct / is_fully_funded are derived on every read and *)
(* never stored.                                                              *)

----------------------------------------------------------------------------
(* Results of a call *)

Ok(e) == [kind |-> "ok", event |-> e]
NotFound == [kind |-> "none"]
Raised == [kind |-> "raise"]
Bool(b) == [kind |-> "bool", value |-> b]
Listed(items, total) == [kind |-> "list", items |-> items, total |-> total]

----------------------------------------------------------------------------
(* InMemoryEventRepository (app/repositories/in_memory.py) *)

HasId(events, id) == \E i \in 1..Len(events) : events[i].id = id
IndexOf(events, id) == CHOOSE i \in 1..Len(events) : events[i].id = id

InMemory_new_event(id, payload, now) ==
    [k \in DOMAIN payload \cup {"id", "created_at", "updated_at", "deleted_at"} |->
        CASE k = "id" -> id
          [] k = "created_at" -> now
          [] k = "updated_at" -> now
          [] k = "deleted_at" -> None
          [] OTHER -> payload[k]]

InMemory_create_event(events, id, payload, now) ==
    Append(events, InMemory_new_event(id, payload, now))

(* Mutant: get_event without the deleted_at test *)
InMemory_get_event_any_state(events, user_id, event_id) ==
    IF ~HasId(events, event_id) THEN NotFound
    ELSE LET event == events[IndexOf(events, event_id)] IN
         IF event.user_id # user_id THEN NotFound
         ELSE Ok(event)

InMemory_get_event(events, user_id, event_id) ==
    IF ~HasId(events, event_id) THEN NotFound
    ELSE LET event == events[IndexOf(events, event_id)] IN
         IF event.deleted_at # None \/ event.user_id # user_id THEN NotFound
         ELSE Ok(event)

(* Mutant: update_event looking the id up without get_event's scope *)
InMemory_update_event_unscoped(events, user_id, event_id, payload, now) ==
    IF ~HasId(events, event_id) THEN [events |-> events, result |-> NotFound]
    ELSE LET updated == model_copy(model_copy(events[IndexOf(events, event_id)],
                                              model_dump_exclude_unset(payload)),
                                   [updated_at |-> now])
         IN [events |-> [events EXCEPT ![IndexOf(events, event_id)] = updated],
             result |-> Ok(updated)]

InMemory_update_event(events, user_id, event_id, payload, now) ==
    LET got == InMemory_get_event(events, user_id, event_id) IN
    IF got.kind = "none" THEN [events |-> events, result |-> NotFound]
    ELSE LET updated == model_copy(model_copy(got.event, model_dump_exclude_unset(payload)),
                                   [updated_at |-> now])
         IN [events |-> [events EXCEPT ![IndexOf(events, event_id)] = updated],
             result |-> Ok(updated)]

(* Mutant: delete_event clearing the notes along with the stamps *)
InMemory_delete_event_wiping(events, user_id, event_id, now) ==
    LET got == InMemory_get_event(events, user_id, event_id) IN
    IF got.kind = "none" THEN [events |-> events, result |-> Bool(FALSE)]
    ELSE [events |-> [events EXCEPT ![IndexOf(events, event_id)] =
                          model_copy(got.event, [deleted_at |-> Some(now), updated_at |-> now,
                                                 amount_saved |-> None])],
          result |-> Bool(TRUE)]

(* delete_event reads the clock twice, for deleted_at and for updated_at; the *)
(* clock of the model is coarser than the gap between the two reads.         *)
InMemory_delete_event(events, user_id, event_id, now) ==
    LET got == InMemory_get_event(events, user_id, event_id) IN
    IF got.kind = "none" THEN [events |-> events, result |-> Bool(FALSE)]
    ELSE [events |-> [events EXCEPT ![IndexOf(events, event_id)] =
                          model_copy(got.event, [deleted_at |-> Some(now), updated_at |-> now])],
          result |-> Bool(TRUE)]

(* list.sort(key=..., reverse=...): stable; with reverse=True equal keys keep *)
(* their original order too.  pairs is a sequence of <<key, item>>.           *)
InsertStable(sorted, x, reverse) ==
    LET k == Cardinality({i \in 1..Len(sorted) :
                             IF reverse THEN sorted[i][1] >= x[1] ELSE sorted[i][1] <= x[1]})
    IN SubSeq(sorted, 1, k) \o <<x>> \o SubSeq(sorted, k + 1, Len(sorted))

RECURSIVE StableSort(_, _)
StableSort(pairs, reverse) ==
    IF pairs = <<>> THEN <<>>
    ELSE InsertStable(StableSort(SubSeq(pairs, 1, Len(pairs) - 1), reverse),
                      pairs[Len(pairs)], reverse)

(* values[start:end] *)
Slice(values, start, end) ==
    LET hi == IF end < Len(values) THEN end ELSE Len(values) IN
    IF start >= hi THEN <<>> ELSE SubSeq(values, start + 1, hi)

(* q: [user_id, status, category, year, page, page_size, sort_by, sort_order], *)
(* status / category / year optional                                           *)
InMemory_matching(events, q) ==
    SelectSeq(events, LAMBDA event :
        /\ event.deleted_at = None /\ event.user_id = q.user_id
        /\ (q.status # None => event.status = q.status)
        /\ (q.category # None => event.category = q.category)
        /\ (q.year # None => event.start_date # None /\ Year(event.start_date[1]) = q.year[1]))

(* The reads of a None that raise: start_date.year (year filter),            *)
(* priority.value (priority key), and comparing a None sort key with another *)
InMemory_list_raises(events, q) ==
    LET scoped == SelectSeq(events, LAMBDA event :
                      /\ event.deleted_at = None /\ event.user_id = q.user_id
                      /\ (q.status # None => event.status = q.status)
                      /\ (q.category # None => event.category = q.category))
        values == InMemory_matching(events, q)
    IN \/ q.year # None /\ \E i \in 1..Len(scoped) : scoped[i].start_date = None
       \/ q.sort_by = "priority" /\ \E i \in 1..Len(values) : values[i].priority = None
       \/ q.sort_by = "start_date" /\ Len(values) >= 2
            /\ \E i \in 1..Len(values) : values[i].start_date = None

InMemory_sort_key(event, sort_by) ==
    CASE sort_by = "priority" -> PRIORITY_RANK[event.priority[1]]
      [] sort_by = "start_date" -> IF event.start_date = None THEN 0 ELSE event.start_date[1]
      [] sort_by = "created_at" -> event.created_at

InMemory_list_events(events, q) ==
    IF InMemory_list_raises(events, q) THEN Raised
    ELSE LET values == InMemory_matching(events, q)
             pairs == [i \in 1..Len(values) |-> <<InMemory_sort_key(values[i], q.sort_by), values[i]>>]
             sorted == StableSort(pairs, q.sort_order = "desc")
             items == [i \in 1..Len(sorted) |-> sorted[i][2]]
             start == (q.page - 1) * q.page_size
         IN Listed(Slice(items, start, start + q.page_size), Len(items))

----------------------------------------------------------------------------
(* MongoEventRepository (app/repositories/events.py).  A document holds the  *)
(* JSON dump of the payload (dates as ISO text), the timestamps, deleted_at   *)
(* and priority_rank, under _id.                                              *)

MalformedId == 0
ObjectId_is_valid(event_id) == event_id # MalformedId

(* _PRIORITY_RANK.get(priority, 2) *)
PRIORITY_RANK_get(priority) ==
    IF priority # None /\ priority[1] \in DOMAIN PRIORITY_RANK THEN PRIORITY_RANK[priority[1]] ELSE 2

Mongo_new_doc(id, payload, now) ==
    LET data == model_dump_json(payload) IN
    [k \in DOMAIN data \cup {"_id", "created_at", "updated_at", "deleted_at", "priority_rank"} |->
        CASE k = "_id" -> id
          [] k = "created_at" -> now
          [] k = "updated_at" -> now
          [] k = "deleted_at" -> None
          [] k = "priority_rank" -> PRIORITY_RANK_get(data.priority)
          [] OTHER -> data[k]]

(* The fields the Event is built from: _id as id, priority_rank dropped,  *)
(* ISO text parsed back to dates                                             *)
doc_fields(doc) ==
    [k \in (DOMAIN doc \ {"_id", "priority_rank"}) \cup {"id"} |->
        CASE k = "id" -> doc["_id"]
          [] k \in DateFields /\ doc[k] # None -> Some(fromisoformat(doc[k][1]))
          [] OTHER -> doc[k]]

(* _doc_to_event: building the Event validates, and raises on a document that does *)
(* not satisfy the entity's validation                                       *)
doc_to_event(doc) ==
    IF EventBase_valid(doc_fields(doc)) THEN Ok(doc_fields(doc)) ELSE Raised

(* Mutant: _base_query without the user_id scope *)
base_query_any_user(doc, user_id) == doc.deleted_at = None

base_query(doc, user_id) == doc.deleted_at = None /\ doc.user_id = user_id

HasDoc(docs, user_id, event_id) ==
    \E i \in 1..Len(docs) : docs[i]["_id"] = event_id /\ base_query(docs[i], user_id)
DocIndex(docs, user_id, event_id) ==
    CHOOSE i \in 1..Len(docs) : docs[i]["_id"] = event_id /\ base_query(docs[i], user_id)

Mongo_create_event(docs, id, payload, now) ==
    Append(docs, Mongo_new_doc(id, payload, now))

Mongo_get_event(docs, user_id, event_id) ==
    IF ~ObjectId_is_valid(event_id) THEN NotFound
    ELSE IF ~HasDoc(docs, user_id, event_id) THEN NotFound
    ELSE doc_to_event(docs[DocIndex(docs, user_id, event_id)])

(* Mutant: update_event stamping created_at along with updated_at *)
Mongo_update_event_restamped(docs, user_id, event_id, payload, now) ==
    IF ~ObjectId_is_valid(event_id) THEN [docs |-> docs, result |-> NotFound]
    ELSE LET updates == model_dump_json(model_dump_exclude_unset(payload)) IN
         IF DOMAIN updates = {}
         THEN [docs |-> docs, result |-> Mongo_get_event(docs, user_id, event_id)]
         ELSE IF ~HasDoc(docs, user_id, event_id) THEN [docs |-> docs, result |-> NotFound]
         ELSE LET i == DocIndex(docs, user_id, event_id)
                  set == model_copy(model_copy(docs[i], updates),
                                    [updated_at |-> now, created_at |-> now])
                  after == [docs EXCEPT ![i] = set]
              IN [docs |-> after, result |-> Mongo_get_event(after, user_id, event_id)]

(* Mutant: update_event leaving priority_rank as it was stored *)
Mongo_update_event_unranked(docs, user_id, event_id, payload, now) ==
    IF ~ObjectId_is_valid(event_id) THEN [docs |-> docs, result |-> NotFound]
    ELSE LET updates == model_dump_json(model_dump_exclude_unset(payload)) IN
         IF DOMAIN updates = {}
         THEN [docs |-> docs, result |-> Mongo_get_event(docs, user_id, event_id)]
         ELSE IF ~HasDoc(docs, user_id, event_id) THEN [docs |-> docs, result |-> NotFound]
         ELSE LET i == DocIndex(docs, user_id, event_id)
                  set == model_copy(model_copy(docs[i], updates), [updated_at |-> now])
                  after == [docs EXCEPT ![i] = set]
              IN [docs |-> after, result |-> Mongo_get_event(after, user_id, event_id)]

Mongo_update_event(docs, user_id, event_id, payload, now) ==
    IF ~ObjectId_is_valid(event_id) THEN [docs |-> docs, result |-> NotFound]
    ELSE LET updates == model_dump_json(model_dump_exclude_unset(payload)) IN
         IF DOMAIN updates = {}
         THEN [docs |-> docs, result |-> Mongo_get_event(docs, user_id, event_id)]
         ELSE IF ~HasDoc(docs, user_id, event_id) THEN [docs |-> docs, result |-> NotFound]
         ELSE LET i == DocIndex(docs, user_id, event_id)
                  ranked == IF "priority" \in DOMAIN updates
                            THEN model_copy(docs[i], [priority_rank |-> PRIORITY_RANK_get(updates.priority)])
                            ELSE docs[i]
                  set == model_copy(model_copy(ranked, updates), [updated_at |-> now])
                  after == [docs EXCEPT ![i] = set]
              IN [docs |-> after, result |-> Mongo_get_event(after, user_id, event_id)]

(* Mutant: delete_event matching on _id and user_id only *)
Mongo_delete_event_any_state(docs, user_id, event_id, now) ==
    IF ~ObjectId_is_valid(event_id) THEN [docs |-> docs, result |-> Bool(FALSE)]
    ELSE IF ~\E i \in 1..Len(docs) : docs[i]["_id"] = event_id /\ docs[i].user_id = user_id
    THEN [docs |-> docs, result |-> Bool(FALSE)]
    ELSE LET i == CHOOSE j \in 1..Len(docs) : docs[j]["_id"] = event_id
             set == model_copy(docs[i], [deleted_at |-> Some(now), updated_at |-> now])
         IN [docs |-> [docs EXCEPT ![i] = set], result |-> Bool(set # docs[i])]

Mongo_delete_event(docs, user_id, event_id, now) ==
    IF ~ObjectId_is_valid(event_id) THEN [docs |-> docs, result |-> Bool(FALSE)]
    ELSE IF ~HasDoc(docs, user_id, event_id) THEN [docs |-> docs, result |-> Bool(FALSE)]
    ELSE LET i == DocIndex(docs, user_id, event_id)
             set == model_copy(docs[i], [deleted_at |-> Some(now), updated_at |-> now])
         IN [docs |-> [docs EXCEPT ![i] = set], result |-> Bool(set # docs[i])]

Mongo_query(doc, q) ==
    /\ base_query(doc, q.user_id)
    /\ (q.status # None => doc.status = q.status)
    /\ (q.category # None => doc.category = q.category)
    /\ (q.year # None =>
           /\ doc.start_date # None
           /\ ~StrLess(doc.start_date[1], isoformat(Jan1(q.year[1])))
           /\ StrLess(doc.start_date[1], isoformat(Jan1(q.year[1] + 1))))

(* BSON order of an optional ISO text: null sorts before every text *)
BsonLess(x, y) == (x = None /\ y # None) \/ (x # None /\ y # None /\ StrLess(x[1], y[1]))

(* a strictly before b in the requested sort *)
Mongo_before(a, b, q) ==
    CASE q.sort_by = "priority" ->
            \/ (q.sort_order = "asc" /\ a.priority_rank < b.priority_rank)
            \/ (q.sort_order # "asc" /\ a.priority_rank > b.priority_rank)
            \/ (a.priority_rank = b.priority_rank /\ BsonLess(a.start_date, b.start_date))
      [] q.sort_by = "start_date" ->
            IF q.sort_order = "asc" THEN BsonLess(a.start_date, b.start_date)
            ELSE BsonLess(b.start_date, a.start_date)
      [] q.sort_by = "created_at" ->
            IF q.sort_order = "asc" THEN a.created_at < b.created_at
            ELSE a.created_at > b.created_at

(* The orders the store may return the matching documents in: every order    *)
(* sorted by the sort keys; documents with equal keys come in any order.     *)
Mongo_sorted(docs, q) ==
    LET match == {i \in 1..Len(docs) : Mongo_query(docs[i], q)}
        n == Cardinality(match)
    IN {[k \in 1..n |-> docs[s[k]]] :
          s \in {t \in [1..n -> match] :
                   /\ \A j, k \in 1..n : j # k => t[j] # t[k]
                   /\ \A j, k \in 1..n : j < k => ~Mongo_before(docs[t[k]], docs[t[j]], q)}}

Mongo_page(sorted, q) ==
    LET skip == (q.page - 1) * q.page_size
        page == Slice(sorted, skip, skip + q.page_size)
    IN IF \E i \in 1..Len(page) : doc_to_event(page[i]).kind = "raise" THEN Raised
       ELSE Listed([i \in 1..Len(page) |-> doc_to_event(page[i]).event], Len(sorted))

(* The set of results list_events may return *)
Mongo_list_events(docs, q) == {Mongo_page(sorted, q) : sorted \in Mongo_sorted(docs, q)}

----------------------------------------------------------------------------
(* Summaries (get_overview_summary / get_financial_summary of both backends) *)

Summary(total, by_status, by_phase) ==
    [kind |-> "overview", total_events |-> total, by_status |-> by_status,
     by_timeline_phase |-> by_phase]

Financial(target, saved, funded, upcoming, next_years) ==
    [kind |-> "financial", total_savings_target |-> target, total_amount_saved |-> saved,
     fully_funded_events |-> funded, upcoming_financial_events |-> upcoming,
     next_years |-> next_years]

Count(rows, P(_)) == Cardinality({i \in 1..Len(rows) : P(rows[i])})

(* value or 0 *)
OrZero(x) == IF x = None THEN 0 ELSE x[1]

RECURSIVE SumOf(_, _)
SumOf(rows, field) ==
    IF rows = <<>> THEN 0 ELSE OrZero(Head(rows)[field]) + SumOf(Tail(rows), field)

InMemory_rows(events, user_id) ==
    SelectSeq(events, LAMBDA event : event.deleted_at = None /\ event.user_id = user_id)

(* row.status.value raises on a None status; a None or empty phase is skipped *)
InMemory_get_overview_summary(events, user_id) ==
    LET rows == InMemory_rows(events, user_id) IN
    IF \E i \in 1..Len(rows) : rows[i].status = None THEN Raised
    ELSE Summary(Len(rows),
                 [s \in {rows[i].status[1] : i \in 1..Len(rows)} |->
                     Count(rows, LAMBDA r : r.status = Some(s))],
                 [ph \in {rows[i].timeline_phase[1] :
                            i \in {j \in 1..Len(rows) : rows[j].timeline_phase # None}} |->
                     Count(rows, LAMBDA r : r.timeline_phase = Some(ph))])

(* start_date >= today raises on a None start_date *)
InMemory_get_financial_summary(events, user_id, next_years) ==
    LET rows == SelectSeq(InMemory_rows(events, user_id),
                          LAMBDA event : event.is_financial = Some(TRUE))
        end == Jan1(Year(Today) + next_years)
    IN IF \E i \in 1..Len(rows) : rows[i].start_date = None THEN Raised
       ELSE Financial(SumOf(rows, "savings_target"), SumOf(rows, "amount_saved"),
                      Count(rows, LAMBDA r : OrZero(r.savings_target) > 0
                                             /\ OrZero(r.amount_saved) >= OrZero(r.savings_target)),
                      Count(rows, LAMBDA r : r.start_date[1] >= Today /\ r.start_date[1] < end),
                      next_years)

Mongo_rows(docs, user_id) == SelectSeq(docs, LAMBDA doc : base_query(doc, user_id))

(* to_list(length=...): at most that many rows of a cursor *)
StatusGroupLimit == 20
PhaseGroupLimit == 50
FinancialFindLimit == 2000

(* The rows of {$group: {_id: "$field"}} that to_list hands over: one per     *)
(* distinct value, null included; beyond the limit, any limit of them          *)
RECURSIVE Without(_, _)
Without(keys, n) ==
    IF n = 0 THEN {keys} ELSE UNION {Without(keys \ {k}, n - 1) : k \in keys}

GroupRows(rows, field, limit) ==
    LET keys == {rows[i][field] : i \in 1..Len(rows)} IN
    IF Cardinality(keys) <= limit THEN {keys}
    ELSE Without(keys, Cardinality(keys) - limit)

(* {row["_id"]: row["count"] for row in rows if row.get("_id")} *)
GroupCounts(rows, field, keys) ==
    [k \in {key[1] : key \in keys \ {None}} |-> Count(rows, LAMBDA r : r[field] = Some(k))]

(* The summaries Mongo may return: one, unless a $group has more rows than  *)
(* its to_list takes                                                         *)
Mongo_get_overview_summary(docs, user_id) ==
    LET rows == Mongo_rows(docs, user_id) IN
    {Summary(Len(rows), GroupCounts(rows, "status", status_rows),
             GroupCounts(rows, "timeline_phase", phase_rows)) :
        status_rows \in GroupRows(rows, "status", StatusGroupLimit),
        phase_rows \in GroupRows(rows, "timeline_phase", PhaseGroupLimit)}

Mongo_get_financial_summary(docs, user_id, next_years) ==
    LET rows == SelectSeq(Mongo_rows(docs, user_id), LAMBDA doc : doc.is_financial = Some(TRUE))
        found == SubSeq(rows, 1, Min(Len(rows), FinancialFindLimit))
        end == Jan1(Year(Today) + next_years)
    IN Financial(SumOf(found, "savings_target"), SumOf(found, "amount_saved"),
                 Count(found, LAMBDA r : OrZero(r.savings_target) > 0
                                         /\ OrZero(r.amount_saved) >= OrZero(r.savings_target)),
                 Count(rows, LAMBDA r : /\ r.start_date # None
                                        /\ ~StrLess(r.start_date[1], isoformat(Today))
                                        /\ StrLess(r.start_date[1], isoformat(end))),
                 next_years)

----------------------------------------------------------------------------
(* Event's computed fields (app/models/event.py).  Amounts are whole numbers;  *)
(* a percentage is carried in hundredths of a percent, so 100.0 is 10000 and   *)
(* round(x, 2) is a rounding to the nearest whole number of hundredths, ties   *)
(* to the even one.                                                            *)

RoundHalfEven(n, d) ==
    LET q == n \div d
        r == n % d
    IN IF 2 * r < d THEN q
       ELSE IF 2 * r > d THEN q + 1
       ELSE IF q % 2 = 0 THEN q ELSE q + 1

(* not self.is_financial or not self.savings_target or self.savings_target <= 0 *)
NotFunded(e) ==
    \/ e.is_financial # Some(TRUE)
    \/ e.savings_target = None \/ e.savings_target[1] = 0
    \/ e.savings_target[1] <= 0

(* Mutant: the cap of 100 is left out *)
savings_progress_pct_uncapped(e) ==
    IF NotFunded(e) THEN None
    ELSE Some(RoundHalfEven(OrZero(e.amount_saved) * 10000, e.savings_target[1]))

savings_progress_pct(e) ==
    IF NotFunded(e) THEN None
    ELSE Some(Min(10000, RoundHalfEven(OrZero(e.amount_saved) * 10000, e.savings_target[1])))

is_fully_funded(e) ==
    IF NotFunded(e) THEN None
    ELSE Some(OrZero(e.amount_saved) >= e.savings_target[1])

(* The response body of an event: its fields and the two computed fields *)
Serialized(e) ==
    [id |-> e.id, is_financial |-> e.is_financial, savings_target |-> e.savings_target,
     amount_saved |-> e.amount_saved, savings_progress_pct |-> savings_progress_pct(e),
     is_fully_funded |-> is_fully_funded(e)]

----------------------------------------------------------------------------
(* EventService (app/services/event_service.py) *)

FinancialMessage == "financial events must include savings_target"
CompletionMessage == "completed events cannot have a future start/end date"
RuleError(detail) == [kind |-> "rule_error", detail |-> detail]

(* TRUE when the rule passes *)
validate_financial_requirements(is_financial, savings_target) ==
    ~(is_financial = Some(TRUE) /\ savings_target = None)

validate_completion_timing(status, start_date, end_date) ==
    IF status # Some("completed") THEN TRUE
    ELSE LET effective_date == IF end_date # None THEN end_date ELSE start_date IN
         ~(effective_date # None /\ effective_date[1] > Today)

(* The two rules in their order: the first failure, or "pass" *)
Service_rules(is_financial, savings_target, status, start_date, end_date) ==
    IF ~validate_financial_requirements(is_financial, savings_target)
    THEN RuleError(FinancialMessage)
    ELSE IF ~validate_completion_timing(status, start_date, end_date)
    THEN RuleError(CompletionMessage)
    ELSE [kind |-> "pass"]

(* payload.<field>: None when the partial does not supply it *)
Attr(payload, f) == IF f \in DOMAIN payload THEN payload[f] ELSE None

(* payload.f if payload.f is not None else existing.f *)
Service_next(payload, existing, f) ==
    IF Attr(payload, f) # None THEN payload[f] ELSE existing[f]

Service_create_rules(payload) ==
    Service_rules(payload.is_financial, payload.savings_target, payload.status,
                  payload.start_date, payload.end_date)

Service_update_rules(payload, existing) ==
    Service_rules(Service_next(payload, existing, "is_financial"),
                  Service_next(payload, existing, "savings_target"),
                  Service_next(payload, existing, "status"),
                  Service_next(payload, existing, "start_date"),
                  Service_next(payload, existing, "end_date"))

(* EventService.update_event over each backend *)
Service_update_InMemory(events, user_id, event_id, payload, now) ==
    LET existing == InMemory_get_event(events, user_id, event_id) IN
    IF existing.kind = "none" THEN [events |-> events, result |-> NotFound]
    ELSE LET rules == Service_update_rules(payload, existing.event) IN
         IF rules.kind = "rule_error" THEN [events |-> events, result |-> rules]
         ELSE InMemory_update_event(events, user_id, event_id, payload, now)

Service_update_Mongo(docs, user_id, event_id, payload, now) ==
    LET existing == Mongo_get_event(docs, user_id, event_id) IN
    IF existing.kind # "ok" THEN [docs |-> docs, result |-> existing]
    ELSE LET rules == Service_update_rules(payload, existing.event) IN
         IF rules.kind = "rule_error" THEN [docs |-> docs, result |-> rules]
         ELSE Mongo_update_event(docs, user_id, event_id, payload, now)

----------------------------------------------------------------------------
(* Requests *)

BasePayload ==
    [user_id |-> "demo-user", title |-> Some("Start MSc"), category |-> Some("education"),
     start_date |-> Some(1), end_date |-> None, notes |-> None, status |-> Some("planned"),
     priority |-> Some("medium"), timeline_phase |-> None, is_financial |-> Some(FALSE),
     savings_target |-> None, amount_saved |-> None]

FinancialPayload ==
    model_copy(BasePayload,
        [category |-> Some("finance"), start_date |-> Some(3), end_date |-> Some(4),
         priority |-> Some("high"), timeline_phase |-> Some("early-career"),
         is_financial |-> Some(TRUE), savings_target |-> Some(2), amount_saved |-> Some(1)])

EarlyHighPayload ==
    model_copy(BasePayload,
        [start_date |-> Some(2), priority |-> Some("high"), status |-> Some("in-progress")])

NoTargetPayload == model_copy(BasePayload, [is_financial |-> Some(TRUE)])

FutureCompletedPayload ==
    model_copy(BasePayload, [start_date |-> Some(3), status |-> Some("completed")])

BackwardsPayload == model_copy(BasePayload, [start_date |-> Some(2), end_date |-> Some(1)])

EmptyUpdate == [k \in {} |-> None]

(* Ids a caller may send: malformed, assigned, and one never assigned *)
EventIds == {MalformedId} \cup (1..(MaxEvents + 1))

DefaultQuery(user_id) ==
    [user_id |-> user_id, status |-> None, category |-> None, year |-> None,
     page |-> 1, page_size |-> MaxPageSize, sort_by |-> "start_date", sort_order |-> "asc"]

(* The listings the list action asks for *)
ListQueries(user_id) ==
    {model_copy(DefaultQuery(user_id), [page_size |-> ps, sort_by |-> sb]) :
        ps \in {1, MaxPageSize}, sb \in {"start_date", "priority"}}

Call(op, user_id, event_id, payload, mem, mongo) ==
    [op |-> op, user_id |-> user_id, event_id |-> event_id, payload |-> payload,
     mem |-> mem, mongo |-> mongo]

----------------------------------------------------------------------------
(* State machine.  Every now() of one call reads the same instant clock + 1; *)
(* the clock advances when a call has stamped a record.                      *)

(* The fields class Settings declares (app/core/config.py) *)
SettingsFields ==
    {"app_name", "app_env", "app_debug", "backend_host", "backend_port",
     "mongo_uri", "mongo_db_name", "mongo_collection_events", "cors_origins"}

(* The attributes main.py and db/mongo.py read from settings that class       *)
(* Settings does not declare                                                   *)
StartupSettings ==
    {"mongo_startup_timeout_seconds", "allow_in_memory_fallback",
     "mongo_server_selection_timeout_ms"}

(* settings.<name>: the configured value of an attribute the settings object   *)
(* has; reading any other name raises AttributeError, modelled as None         *)
Setting(name, configured) ==
    IF name \in app.settings_fields THEN Some(configured) ELSE None

(* app.state and the environment of the process.  app_env and                 *)
(* allow_in_memory_fallback are what the environment configures, mongo_server  *)
(* is how the server answers ("up", "down", or "slow": not within the startup  *)
(* timeout).  phase follows the lifespan: starting, serving (the yield),       *)
(* failed (the lifespan raised), stopped.  settings_fields are the attributes  *)
(* the settings object has; client is mongo_manager._client: "none", "open"    *)
(* once connect() has built it, "closed" once close() has run.                 *)
AppState(phase, app_env, allow_in_memory_fallback, mongo_server, events_repository, using_mongo) ==
    [phase |-> phase, app_env |-> app_env,
     allow_in_memory_fallback |-> allow_in_memory_fallback,
     mongo_server |-> mongo_server,
     events_repository |-> events_repository, using_mongo |-> using_mongo,
     settings_fields |-> SettingsFields, client |-> "none"]

(* The requests in flight on the event loop: a task is a call that has been    *)
(* started; pc is the await it is suspended at ("idle" before the call,         *)
(* "done" once it has returned mem / mongo)                                     *)
Tasks == {"t1", "t2"}

Task(pc, op, user_id, event_id, payload, mem, mongo) ==
    [pc |-> pc, op |-> op, user_id |-> user_id, event_id |-> event_id, payload |-> payload,
     mem |-> mem, mongo |-> mongo]

IdleTask == Task("idle", "init", "", MalformedId, EmptyUpdate, NotFound, NotFound)

EmptyStore ==
    /\ memEvents = <<>>
    /\ mongoDocs = <<>>
    /\ clock = 0
    /\ last = Call("init", "", MalformedId, EmptyUpdate, NotFound, NotFound)
    /\ inflight = [t \in Tasks |-> IdleTask]

(* The application serving in test mode, nothing stored yet *)
Init ==
    /\ EmptyStore
    /\ app = AppState("serving", "test", FALSE, "down", "InMemoryEventRepository", FALSE)

(* The process before its lifespan has run, under each environment *)
InitStartup ==
    /\ EmptyStore
    /\ \E app_env \in {"test", "local"}, allow_in_memory_fallback \in BOOLEAN,
          mongo_server \in {"up", "down", "slow"} :
          app = AppState("starting", app_env, allow_in_memory_fallback, mongo_server,
                         "unset", FALSE)

(* The process before its lifespan has run, with a Settings class that also    *)
(* declares the attributes the lifespan and connect() read                     *)
InitStartupDeclared ==
    /\ EmptyStore
    /\ \E app_env \in {"test", "local"}, allow_in_memory_fallback \in BOOLEAN,
          mongo_server \in {"up", "down", "slow"} :
          app = [AppState("starting", app_env, allow_in_memory_fallback, mongo_server,
                          "unset", FALSE)
                    EXCEPT !.settings_fields = SettingsFields \cup StartupSettings]

(* mongo_manager.connect(): AsyncIOMotorClient(settings.mongo_uri,            *)
(* serverSelectionTimeoutMS=settings.mongo_server_selection_timeout_ms); the   *)
(* client connects lazily, so only reading the settings can fail here          *)
MongoManager_connect ==
    /\ Setting("mongo_uri", "mongodb://localhost:27017") # None
    /\ Setting("mongo_server_selection_timeout_ms", 3000) # None

(* The try block of lifespan: connect, assign the repository, await            *)
(* ensure_indexes under the startup timeout.  The result is the repository     *)
(* app.state holds afterwards and whether the block ran to its end.            *)
lifespan_try(state) ==
    IF ~MongoManager_connect
    THEN [events_repository |-> state.events_repository, using_mongo |-> FALSE,
          client |-> state.client]
    ELSE IF Setting("mongo_startup_timeout_seconds", 5) = None
         THEN [events_repository |-> "MongoEventRepository", using_mongo |-> FALSE,
               client |-> "open"]
         ELSE [events_repository |-> "MongoEventRepository",
               using_mongo |-> state.mongo_server = "up", client |-> "open"]

(* The except block of lifespan: re-raise unless settings allow the fallback,  *)
(* else the volatile backend.  Reading the setting may itself raise.           *)
lifespan_except(state, tried) ==
    LET allow == Setting("allow_in_memory_fallback", state.allow_in_memory_fallback)
    IN IF allow = None
       THEN [state EXCEPT !.phase = "failed", !.events_repository = tried.events_repository,
                          !.client = tried.client]
       ELSE IF ~allow[1]
            THEN [state EXCEPT !.phase = "failed",
                               !.events_repository = tried.events_repository,
                               !.client = tried.client]
            ELSE [state EXCEPT !.phase = "serving",
                               !.events_repository = "InMemoryEventRepository",
                               !.client = tried.client]

(* lifespan up to its yield *)
lifespan_startup ==
    /\ app.phase = "starting"
    /\ app' = IF Setting("app_env", app.app_env) = Some("test")
              THEN [app EXCEPT !.phase = "serving",
                               !.events_repository = "InMemoryEventRepository"]
              ELSE LET tried == lifespan_try(app)
                   IN IF tried.using_mongo
                      THEN [app EXCEPT !.phase = "serving",
                                       !.events_repository = tried.events_repository,
                                       !.using_mongo = TRUE, !.client = tried.client]
                      ELSE lifespan_except(app, tried)
    /\ UNCHANGED <<memEvents, mongoDocs, clock, last, inflight>>

(* After the yield: the client is closed if Mongo was in use *)
lifespan_shutdown ==
    /\ app.phase = "serving"
    /\ app' = [app EXCEPT !.phase = "stopped",
                          !.client = IF app.using_mongo /\ app.client = "open"
                                     THEN "closed" ELSE app.client]
    /\ UNCHANGED <<memEvents, mongoDocs, clock, last, inflight>>

NextId == Len(memEvents) + 1

(* Mutant: the route hands the body over with the user_id it carried *)
post_event_as_payload_user(user_id, body) ==
    /\ app.phase = "serving"
    /\ EventBase_valid(body)
    /\ LET now == clock + 1
           mem == InMemory_create_event(memEvents, NextId, body, now)
           mongo == Mongo_create_event(mongoDocs, NextId, body, now)
       IN /\ memEvents' = mem
          /\ mongoDocs' = mongo
          /\ clock' = now
          /\ last' = Call("create", user_id, NextId, body, Ok(mem[Len(mem)]),
                          doc_to_event(mongo[Len(mongo)]))
    /\ UNCHANGED <<app, inflight>>

(* POST /events: the route stamps the caller's user id and calls the         *)
(* repository.  A payload failing EventCreate validation never gets here.    *)
post_event(user_id, body) ==
    /\ app.phase = "serving"
    /\ EventBase_valid(body)
    /\ LET payload == model_copy(body, [user_id |-> user_id])
           now == clock + 1
           mem == InMemory_create_event(memEvents, NextId, payload, now)
           mongo == Mongo_create_event(mongoDocs, NextId, payload, now)
       IN /\ memEvents' = mem
          /\ mongoDocs' = mongo
          /\ clock' = now
          /\ last' = Call("create", user_id, NextId, body, Ok(mem[Len(mem)]),
                          doc_to_event(mongo[Len(mongo)]))
    /\ UNCHANGED <<app, inflight>>

create_event(user_id, body) ==
    /\ Len(memEvents) < MaxEvents /\ clock < MaxClock
    /\ post_event(user_id, body)

(* PATCH /events/{id}: repository.update_event *)
update_event(user_id, event_id, payload) ==
    /\ app.phase = "serving"
    /\ EventUpdate_valid(payload)
    /\ LET now == clock + 1
           mem == InMemory_update_event(memEvents, user_id, event_id, payload, now)
           mongo == Mongo_update_event(mongoDocs, user_id, event_id, payload, now)
       IN /\ memEvents' = mem.events
          /\ mongoDocs' = mongo.docs
          /\ clock' = IF mem.events # memEvents \/ mongo.docs # mongoDocs THEN now ELSE clock
          /\ clock' <= MaxClock
          /\ last' = Call("update", user_id, event_id, payload, mem.result, mongo.result)
    /\ UNCHANGED <<app, inflight>>

(* DELETE /events/{id}: repository.delete_event *)
delete_event(user_id, event_id) ==
    /\ app.phase = "serving"
    /\ LET now == clock + 1
           mem == InMemory_delete_event(memEvents, user_id, event_id, now)
           mongo == Mongo_delete_event(mongoDocs, user_id, event_id, now)
       IN /\ memEvents' = mem.events
          /\ mongoDocs' = mongo.docs
          /\ clock' = IF mem.events # memEvents \/ mongo.docs # mongoDocs THEN now ELSE clock
          /\ clock' <= MaxClock
          /\ last' = Call("delete", user_id, event_id, EmptyUpdate, mem.result, mongo.result)
    /\ UNCHANGED <<app, inflight>>

(* GET /events/{id} *)
get_event(user_id, event_id) ==
    /\ app.phase = "serving"
    /\ last' = Call("get", user_id, event_id, EmptyUpdate,
                    InMemory_get_event(memEvents, user_id, event_id),
                    Mongo_get_event(mongoDocs, user_id, event_id))
    /\ UNCHANGED <<memEvents, mongoDocs, clock>>
    /\ UNCHANGED <<app, inflight>>

(* GET /events *)
list_events(q) ==
    /\ app.phase = "serving"
    /\ \E mongo \in Mongo_list_events(mongoDocs, q) :
          last' = Call("list", q.user_id, MalformedId, q, InMemory_list_events(memEvents, q), mongo)
    /\ UNCHANGED <<memEvents, mongoDocs, clock>>
    /\ UNCHANGED <<app, inflight>>

(* GET /summary/overview: SummaryService.overview *)
summary_overview(user_id) ==
    /\ app.phase = "serving"
    /\ \E mongo \in Mongo_get_overview_summary(mongoDocs, user_id) :
          last' = Call("overview", user_id, MalformedId, EmptyUpdate,
                       InMemory_get_overview_summary(memEvents, user_id), mongo)
    /\ UNCHANGED <<memEvents, mongoDocs, clock>>
    /\ UNCHANGED <<app, inflight>>

(* GET /summary/financial: SummaryService.financial *)
summary_financial(user_id, next_years) ==
    /\ app.phase = "serving"
    /\ last' = Call("financial", user_id, MalformedId, [next_years |-> next_years],
                    InMemory_get_financial_summary(memEvents, user_id, next_years),
                    Mongo_get_financial_summary(mongoDocs, user_id, next_years))
    /\ UNCHANGED <<memEvents, mongoDocs, clock>>
    /\ UNCHANGED <<app, inflight>>

(* EventService.create_event *)
Service_create_event(user_id, body) ==
    /\ app.phase = "serving"
    /\ EventBase_valid(body)
    /\ Len(memEvents) < MaxEvents /\ clock < MaxClock
    /\ LET rules == Service_create_rules(body)
           payload == model_copy(body, [user_id |-> user_id])
           now == clock + 1
           mem == InMemory_create_event(memEvents, NextId, payload, now)
           mongo == Mongo_create_event(mongoDocs, NextId, payload, now)
       IN IF rules.kind = "rule_error"
          THEN /\ last' = Call("service_create", user_id, MalformedId, body, rules, rules)
               /\ UNCHANGED <<memEvents, mongoDocs, clock>>
          ELSE /\ memEvents' = mem
               /\ mongoDocs' = mongo
               /\ clock' = now
               /\ last' = Call("service_create", user_id, NextId, body, Ok(mem[Len(mem)]),
                               doc_to_event(mongo[Len(mongo)]))
    /\ UNCHANGED <<app, inflight>>

(* EventService.update_event *)
Service_update_event(user_id, event_id, payload) ==
    /\ app.phase = "serving"
    /\ EventUpdate_valid(payload)
    /\ LET now == clock + 1
           mem == Service_update_InMemory(memEvents, user_id, event_id, payload, now)
           mongo == Service_update_Mongo(mongoDocs, user_id, event_id, payload, now)
       IN /\ memEvents' = mem.events
          /\ mongoDocs' = mongo.docs
          /\ clock' = IF mem.events # memEvents \/ mongo.docs # mongoDocs THEN now ELSE clock
          /\ clock' <= MaxClock
          /\ last' = Call("service_update", user_id, event_id, payload, mem.result, mongo.result)
    /\ UNCHANGED <<app, inflight>>

RoutePayloads ==
    {BasePayload, FinancialPayload, EarlyHighPayload, BackwardsPayload, NoTargetPayload}

RouteUpdates == {EmptyUpdate, [end_date |-> Some(1)], [priority |-> None]}

(* The routes, one caller: every request goes to the repository *)
Next ==
    \/ \E body \in RoutePayloads : create_event("rupa", body)
    \/ \E id \in EventIds, payload \in RouteUpdates : update_event("rupa", id, payload)
    \/ \E id \in EventIds : delete_event("rupa", id)
    \/ \E id \in EventIds : get_event("rupa", id)
    \/ \E q \in ListQueries("rupa") : list_events(q)

Spec == Init /\ [][Next]_vars

ScopePayloads == {BasePayload, FinancialPayload}

ScopeUpdates == {[notes |-> Some("Accepted offer")], [priority |-> None]}

(* The routes, two callers *)
NextScope ==
    \/ \E u \in Users, body \in ScopePayloads : create_event(u, body)
    \/ \E u \in Users, id \in EventIds, payload \in ScopeUpdates : update_event(u, id, payload)
    \/ \E u \in Users, id \in EventIds : delete_event(u, id)
    \/ \E u \in Users, id \in EventIds : get_event(u, id)
    \/ \E u \in Users : list_events(DefaultQuery(u))

SpecScope == Init /\ [][NextScope]_vars

RankPayloads == {BasePayload, EarlyHighPayload}

(* Updates that set the priority, null it, or leave it alone *)
RankUpdates ==
    {[priority |-> Some("critical")], [priority |-> Some("low")], [priority |-> None],
     [notes |-> Some("Accepted offer")]}

(* The routes, one caller changing priorities *)
NextRank ==
    \/ \E body \in RankPayloads : create_event("rupa", body)
    \/ \E id \in EventIds, payload \in RankUpdates : update_event("rupa", id, payload)
    \/ \E id \in EventIds : delete_event("rupa", id)
    \/ \E id \in EventIds : get_event("rupa", id)
    \/ \E q \in ListQueries("rupa") : list_events(q)

SpecRank == Init /\ [][NextRank]_vars

BothRulesPayload ==
    model_copy(BasePayload,
        [start_date |-> Some(3), status |-> Some("completed"), is_financial |-> Some(TRUE)])

ServicePayloads ==
    {BasePayload, FinancialPayload, NoTargetPayload, FutureCompletedPayload, BothRulesPayload}

ServiceUpdates ==
    {[savings_target |-> None], [is_financial |-> Some(TRUE)], [savings_target |-> Some(0)],
     [status |-> Some("completed")], [is_financial |-> None, notes |-> Some("Accepted offer")],
     [status |-> Some("completed"), start_date |-> Some(1), end_date |-> None],
     [savings_target |-> None, status |-> Some("completed")]}

(* One caller; every create and update goes through EventService *)
NextService ==
    \/ \E body \in ServicePayloads : Service_create_event("rupa", body)
    \/ \E id \in EventIds, payload \in ServiceUpdates : Service_update_event("rupa", id, payload)
    \/ \E id \in EventIds : delete_event("rupa", id)
    \/ \E id \in EventIds : get_event("rupa", id)

SpecService == Init /\ [][NextService]_vars

(* Payloads over the amounts the computed fields depend on *)
MaxAmount == 3

Amounts == {None} \cup {Some(a) : a \in {0, 1, MaxAmount, 29999, 30000}}

FundingPayloads ==
    {model_copy(FinancialPayload, [savings_target |-> t, amount_saved |-> a]) :
        t \in Amounts, a \in Amounts}
    \cup {model_copy(FinancialPayload, [is_financial |-> Some(FALSE)])}

(* One caller creating and reading events of every funding level *)
NextFunding ==
    \/ \E body \in FundingPayloads : create_event("rupa", body)
    \/ \E id \in EventIds : get_event("rupa", id)
    \/ list_events(DefaultQuery("rupa"))

SpecFunding == Init /\ [][NextFunding]_vars

(* Financial events starting today, yesterday and on the first January 1     *)
(* after today                                                                *)
TodayFinancialPayload ==
    model_copy(FinancialPayload,
        [start_date |-> Some(Today), end_date |-> None, status |-> Some("in-progress"),
         timeline_phase |-> Some("mid-career"), savings_target |-> Some(1),
         amount_saved |-> Some(MaxAmount)])

YesterdayFinancialPayload ==
    model_copy(FinancialPayload,
        [start_date |-> Some(Today - 1), end_date |-> None, timeline_phase |-> None,
         savings_target |-> None, amount_saved |-> None])

NewYearFinancialPayload ==
    model_copy(FinancialPayload, [start_date |-> Some(Jan1(Year(Today) + 1)), end_date |-> None])

SummaryPayloads ==
    {BasePayload, TodayFinancialPayload, YesterdayFinancialPayload, NewYearFinancialPayload}

SummaryUpdates == {[status |-> None], [start_date |-> None]}

MaxNextYears == 2

(* The events routes and the summary routes, two callers *)
NextSummary ==
    \/ \E u \in Users, body \in SummaryPayloads : create_event(u, body)
    \/ \E u \in Users, id \in EventIds, payload \in SummaryUpdates : update_event(u, id, payload)
    \/ \E u \in Users, id \in EventIds : delete_event(u, id)
    \/ \E u \in Users : summary_overview(u)
    \/ \E u \in Users, next_years \in 1..MaxNextYears : summary_financial(u, next_years)

SpecSummary == Init /\ [][NextSummary]_vars

(* One caller filing events that each name a timeline phase of their own,    *)
(* more of them than one $group cursor hands over                             *)
MaxPhases == 51

PhasedPayload(n) == model_copy(BasePayload, [timeline_phase |-> Some(n)])

NextPhases ==
    \/ Len(memEvents) < MaxPhases /\ post_event("rupa", PhasedPayload(NextId))
    \/ summary_overview("rupa")

SpecPhases == Init /\ [][NextPhases]_vars

(* The lifespan under each configuration, then requests while serving *)
NextStartup ==
    \/ lifespan_startup
    \/ lifespan_shutdown
    \/ \E body \in ScopePayloads : create_event("rupa", body)
    \/ \E id \in EventIds : delete_event("rupa", id)
    \/ \E id \in EventIds : get_event("rupa", id)

SpecStartup == InitStartup /\ [][NextStartup]_vars

SpecStartupDeclared == InitStartupDeclared /\ [][NextStartup]_vars

----------------------------------------------------------------------------
(* Concurrent requests.  The handlers are coroutines on one event loop: a call *)
(* runs without interruption up to an await that suspends, and every Mongo      *)
(* collection call is such an await (update_one and find_one are each atomic on *)
(* one document).  InMemoryEventRepository never suspends: awaiting its         *)
(* coroutines runs them inline, so each of its calls is one step.               *)

(* The conditional write of MongoEventRepository.update_event with a non-empty *)
(* partial: update_one({_id, deleted_at: None, user_id}, {$set: updates})       *)
Mongo_update_one(docs, user_id, event_id, payload, now) ==
    IF ~ObjectId_is_valid(event_id) \/ ~HasDoc(docs, user_id, event_id)
    THEN [docs |-> docs, matched |-> FALSE]
    ELSE LET updates == model_dump_json(model_dump_exclude_unset(payload))
             i == DocIndex(docs, user_id, event_id)
             ranked == IF "priority" \in DOMAIN updates
                       THEN model_copy(docs[i], [priority_rank |-> PRIORITY_RANK_get(updates.priority)])
                       ELSE docs[i]
             set == model_copy(model_copy(ranked, updates), [updated_at |-> now])
         IN [docs |-> [docs EXCEPT ![i] = set], matched |-> TRUE]

(* Mutant: the refetch reading the document by _id alone *)
Mongo_update_refetch_any_state(docs, user_id, event_id) ==
    IF \E i \in 1..Len(docs) : docs[i]["_id"] = event_id
    THEN doc_to_event(docs[CHOOSE i \in 1..Len(docs) : docs[i]["_id"] = event_id])
    ELSE NotFound

(* The refetch of update_event: return await self.get_event(user_id, event_id) *)
Mongo_update_refetch(docs, user_id, event_id) == Mongo_get_event(docs, user_id, event_id)

StoresChanged(mem, mongo) == mem # memEvents \/ mongo # mongoDocs

(* A task starts repository.update_event with a non-empty partial and runs up  *)
(* to the end of update_one                                                     *)
begin_update(t, user_id, event_id, payload) ==
    /\ app.phase = "serving"
    /\ inflight[t].pc = "idle"
    /\ EventUpdate_valid(payload) /\ DOMAIN payload # {}
    /\ LET now == clock + 1
           mem == InMemory_update_event(memEvents, user_id, event_id, payload, now)
           written == Mongo_update_one(mongoDocs, user_id, event_id, payload, now)
       IN /\ memEvents' = mem.events
          /\ mongoDocs' = written.docs
          /\ clock' = IF StoresChanged(mem.events, written.docs) THEN now ELSE clock
          /\ inflight' = [inflight EXCEPT ![t] =
                Task(IF written.matched THEN "refetch" ELSE "done", "update",
                     user_id, event_id, payload, mem.result, NotFound)]
          /\ last' = IF written.matched THEN last
                     ELSE Call("update", user_id, event_id, payload, mem.result, NotFound)
    /\ UNCHANGED app

(* The task resumes after update_one matched: the refetch, and the return *)
end_update(t) ==
    /\ app.phase = "serving"
    /\ inflight[t].pc = "refetch"
    /\ LET c == inflight[t]
           mongo == Mongo_update_refetch(mongoDocs, c.user_id, c.event_id)
       IN /\ inflight' = [inflight EXCEPT ![t] = [c EXCEPT !.pc = "done", !.mongo = mongo]]
          /\ last' = Call(c.op, c.user_id, c.event_id, c.payload, c.mem, mongo)
    /\ UNCHANGED <<memEvents, mongoDocs, clock, app>>

(* A task runs repository.delete_event: one update_one, no second step *)
task_delete(t, user_id, event_id) ==
    /\ app.phase = "serving"
    /\ inflight[t].pc = "idle"
    /\ LET now == clock + 1
           mem == InMemory_delete_event(memEvents, user_id, event_id, now)
           mongo == Mongo_delete_event(mongoDocs, user_id, event_id, now)
       IN /\ memEvents' = mem.events
          /\ mongoDocs' = mongo.docs
          /\ clock' = IF StoresChanged(mem.events, mongo.docs) THEN now ELSE clock
          /\ inflight' = [inflight EXCEPT ![t] =
                Task("done", "delete", user_id, event_id, EmptyUpdate, mem.result, mongo.result)]
          /\ last' = Call("delete", user_id, event_id, EmptyUpdate, mem.result, mongo.result)
    /\ UNCHANGED app

(* A task starts EventService.update_event: existing = get_event, then the two *)
(* rules on what was read; it suspends in repository.update_event's update_one. *)
(* Over the in-memory backend the whole call runs here.                         *)
service_read(t, user_id, event_id, payload) ==
    /\ app.phase = "serving"
    /\ inflight[t].pc = "idle"
    /\ EventUpdate_valid(payload) /\ DOMAIN payload # {}
    /\ LET now == clock + 1
           mem == Service_update_InMemory(memEvents, user_id, event_id, payload, now)
           existing == Mongo_get_event(mongoDocs, user_id, event_id)
           rules == Service_update_rules(payload, existing.event)
           returned == IF existing.kind # "ok" THEN existing
                       ELSE IF rules.kind = "rule_error" THEN rules
                       ELSE [kind |-> "pending"]
       IN /\ memEvents' = mem.events
          /\ clock' = IF StoresChanged(mem.events, mongoDocs) THEN now ELSE clock
          /\ inflight' = [inflight EXCEPT ![t] =
                Task(IF returned.kind = "pending" THEN "validated" ELSE "done", "service_update",
                     user_id, event_id, payload, mem.result, returned)]
          /\ last' = IF returned.kind = "pending" THEN last
                     ELSE Call("service_update", user_id, event_id, payload, mem.result, returned)
    /\ UNCHANGED <<mongoDocs, app>>

(* The validated task resumes: the update_one of repository.update_event *)
service_write(t) ==
    /\ app.phase = "serving"
    /\ inflight[t].pc = "validated"
    /\ LET c == inflight[t]
           now == clock + 1
           written == Mongo_update_one(mongoDocs, c.user_id, c.event_id, c.payload, now)
       IN /\ mongoDocs' = written.docs
          /\ clock' = IF StoresChanged(memEvents, written.docs) THEN now ELSE clock
          /\ inflight' = [inflight EXCEPT ![t] =
                [c EXCEPT !.pc = IF written.matched THEN "refetch" ELSE "done",
                          !.mongo = NotFound]]
          /\ last' = IF written.matched THEN last
                     ELSE Call(c.op, c.user_id, c.event_id, c.payload, c.mem, NotFound)
    /\ UNCHANGED <<memEvents, app>>

RacePayloads == {BasePayload, FinancialPayload}

RaceUpdates == {[notes |-> Some("Accepted offer")]}

(* Partials without an explicit null, each passing the rules on its own *)
RaceServiceUpdates == {[status |-> Some("completed")], [start_date |-> Some(3)]}

RaceIds == 1..(MaxEvents + 1)

(* One caller, two requests in flight at a time over events filed before *)
NextRace ==
    \/ \E body \in RacePayloads : create_event("rupa", body)
    \/ \E t \in Tasks, id \in RaceIds, payload \in RaceUpdates :
          begin_update(t, "rupa", id, payload)
    \/ \E t \in Tasks : end_update(t)
    \/ \E t \in Tasks, id \in RaceIds : task_delete(t, "rupa", id)
    \/ \E t \in Tasks, id \in RaceIds, payload \in RaceServiceUpdates :
          service_read(t, "rupa", id, payload)
    \/ \E t \in Tasks : service_write(t)

SpecRace == Init /\ [][NextRace]_vars

(* The listings of one caller page by page, one item a page and a full page,  *)
(* up to the page past the last event                                          *)
PagedQueries(user_id) ==
    {model_copy(DefaultQuery(user_id), [page |-> pg, page_size |-> ps, sort_by |-> sb]) :
        pg \in 1..(MaxPage + 1), ps \in {1, MaxPageSize}, sb \in {"start_date", "priority"}}

PagePayloads == {BasePayload, EarlyHighPayload, FinancialPayload}

(* One caller filing valid events, some on the same day, and paging through *)
NextPages ==
    \/ \E body \in PagePayloads : create_event("rupa", body)
    \/ \E id \in EventIds : delete_event("rupa", id)
    \/ \E q \in PagedQueries("rupa") : list_events(q)

SpecPages == Init /\ [][NextPages]_vars

----------------------------------------------------------------------------
(* Queries the properties range over *)

StatusFilters == {None, Some("planned")}
CategoryFilters == {None, Some("education")}
YearFilters == {None, Some(0)}
SortBys == {"start_date", "priority", "created_at"}
SortOrders == {"asc", "desc"}

Queries(user_id, pages, page_sizes) ==
    {[user_id |-> user_id, status |-> st, category |-> c, year |-> y, page |-> pg,
      page_size |-> ps, sort_by |-> sb, sort_order |-> so] :
        st \in StatusFilters, c \in CategoryFilters, y \in YearFilters, pg \in pages,
        ps \in page_sizes, sb \in SortBys, so \in SortOrders}

(* Every matching event on one page *)
FullQueries(user_id) == Queries(user_id, {1}, {MaxEvents + 1})

LiveEvents(events) == SelectSeq(events, LAMBDA e : e.deleted_at = None)
Tombstoned(events) == {events[i].id : i \in {j \in 1..Len(events) : events[j].deleted_at # None}}
TombstonedDocs(docs) == {docs[i]["_id"] : i \in {j \in 1..Len(docs) : docs[j].deleted_at # None}}

ItemIds(result) ==
    IF result.kind = "list" THEN {result.items[i].id : i \in 1..Len(result.items)} ELSE {}

----------------------------------------------------------------------------
(* C1: once deleteEvent(user, id) has returned true the record is tombstoned  *)
(* and stays so, and a tombstoned record is invisible to every user: getEvent *)
(* does not return it, listEvents neither lists nor counts it, and both        *)
(* summaries are those of the store without it; in both backends.             *)

C1_DeleteTombstones ==
    last.op = "delete" =>
        /\ (last.mem.value => last.event_id \in Tombstoned(memEvents))
        /\ (last.mongo.value => last.event_id \in TombstonedDocs(mongoDocs))

C1_Invisible ==
    \A u \in Users :
        /\ \A id \in Tombstoned(memEvents) : InMemory_get_event(memEvents, u, id) = NotFound
        /\ \A id \in TombstonedDocs(mongoDocs) : Mongo_get_event(mongoDocs, u, id) = NotFound
        /\ \A q \in FullQueries(u) :
              /\ InMemory_list_events(memEvents, q) = InMemory_list_events(LiveEvents(memEvents), q)
              /\ ItemIds(InMemory_list_events(memEvents, q)) \cap Tombstoned(memEvents) = {}
              /\ Mongo_list_events(mongoDocs, q) = Mongo_list_events(LiveEvents(mongoDocs), q)
              /\ \A r \in Mongo_list_events(mongoDocs, q) :
                    ItemIds(r) \cap TombstonedDocs(mongoDocs) = {}
        /\ InMemory_get_overview_summary(memEvents, u)
              = InMemory_get_overview_summary(LiveEvents(memEvents), u)
        /\ Mongo_get_overview_summary(mongoDocs, u)
              = Mongo_get_overview_summary(LiveEvents(mongoDocs), u)
        /\ \A ny \in 1..MaxDate :
              /\ InMemory_get_financial_summary(memEvents, u, ny)
                    = InMemory_get_financial_summary(LiveEvents(memEvents), u, ny)
              /\ Mongo_get_financial_summary(mongoDocs, u, ny)
                    = Mongo_get_financial_summary(LiveEvents(mongoDocs), u, ny)

C1_StaysTombstoned ==
    /\ Tombstoned(memEvents) \subseteq Tombstoned(memEvents')
    /\ TombstonedDocs(mongoDocs) \subseteq TombstonedDocs(mongoDocs')

C1_SoftDeletedInvisible ==
    [](C1_DeleteTombstones /\ C1_Invisible) /\ [][C1_StaysTombstoned]_vars

(* The owner reads an event after deleting it, with another of theirs still live *)
C1_Witness ==
    /\ last.op = "get" /\ last.event_id \in Tombstoned(memEvents)
    /\ last.event_id \in TombstonedDocs(mongoDocs)
    /\ memEvents[last.event_id].user_id = last.user_id
    /\ \E i \in 1..Len(memEvents) :
          memEvents[i].deleted_at = None /\ memEvents[i].user_id = last.user_id

----------------------------------------------------------------------------
(* C2: user isolation.  Every read issued under user B returns what it would  *)
(* return if the store held B's records only (so no other user's event is      *)
(* returned, listed or counted), and an update or delete issued under B on     *)
(* another user's event returns not-found / false and changes no record that   *)
(* is not B's.                                                                 *)

OwnedBy(events, user_id) == SelectSeq(events, LAMBDA e : e.user_id = user_id)

Owner(events, id) == events[IndexOf(events, id)].user_id

C2_ReadsScoped ==
    \A u \in Users :
        /\ \A id \in EventIds :
              /\ InMemory_get_event(memEvents, u, id)
                    = InMemory_get_event(OwnedBy(memEvents, u), u, id)
              /\ Mongo_get_event(mongoDocs, u, id) = Mongo_get_event(OwnedBy(mongoDocs, u), u, id)
              /\ HasId(memEvents, id) /\ Owner(memEvents, id) # u =>
                    /\ InMemory_get_event(memEvents, u, id) = NotFound
                    /\ Mongo_get_event(mongoDocs, u, id) = NotFound
        /\ \A q \in FullQueries(u) :
              /\ InMemory_list_events(memEvents, q)
                    = InMemory_list_events(OwnedBy(memEvents, u), q)
              /\ Mongo_list_events(mongoDocs, q) = Mongo_list_events(OwnedBy(mongoDocs, u), q)
              /\ \A id \in ItemIds(InMemory_list_events(memEvents, q)) : Owner(memEvents, id) = u
              /\ \A r \in Mongo_list_events(mongoDocs, q) :
                    \A id \in ItemIds(r) : Owner(memEvents, id) = u
        /\ InMemory_get_overview_summary(memEvents, u)
              = InMemory_get_overview_summary(OwnedBy(memEvents, u), u)
        /\ Mongo_get_overview_summary(mongoDocs, u)
              = Mongo_get_overview_summary(OwnedBy(mongoDocs, u), u)
        /\ \A ny \in 1..MaxDate :
              /\ InMemory_get_financial_summary(memEvents, u, ny)
                    = InMemory_get_financial_summary(OwnedBy(memEvents, u), u, ny)
              /\ Mongo_get_financial_summary(mongoDocs, u, ny)
                    = Mongo_get_financial_summary(OwnedBy(mongoDocs, u), u, ny)

MutatingOps == {"update", "delete", "service_update"}

C2_WritesScoped ==
    last'.op \in MutatingOps =>
        /\ \A i \in 1..Len(memEvents) :
              memEvents[i].user_id # last'.user_id => memEvents'[i] = memEvents[i]
        /\ \A i \in 1..Len(mongoDocs) :
              mongoDocs[i].user_id # last'.user_id => mongoDocs'[i] = mongoDocs[i]
        /\ HasId(memEvents, last'.event_id) /\ Owner(memEvents, last'.event_id) # last'.user_id =>
              /\ last'.mem \in {NotFound, Bool(FALSE)}
              /\ last'.mongo \in {NotFound, Bool(FALSE)}

C2_UserIsolation == []C2_ReadsScoped /\ [][C2_WritesScoped]_vars

(* A user has just tried to update another user's live event, both owning events *)
C2_Witness ==
    /\ last.op = "update" /\ HasId(memEvents, last.event_id)
    /\ Owner(memEvents, last.event_id) # last.user_id
    /\ memEvents[IndexOf(memEvents, last.event_id)].deleted_at = None
    /\ DOMAIN last.payload # {}
    /\ \E i \in 1..Len(memEvents) : memEvents[i].user_id = last.user_id

----------------------------------------------------------------------------
(* C3: run side by side on the same calls, the volatile and the persistent    *)
(* backend return the same observable result to every call.                   *)

C3_BackendsAgree == last.mem = last.mongo

----------------------------------------------------------------------------
(* C4: every stored event that has an end_date has end_date >= start_date,    *)
(* and an update whose result would have end_date < start_date is rejected     *)
(* with a structural validation error and leaves the record unchanged.         *)

StructuralError == [kind |-> "validation_error"]

DatesOrdered(e) == e.end_date # None => e.start_date # None /\ e.end_date[1] >= e.start_date[1]

C4_StoredDatesOrdered ==
    /\ \A i \in 1..Len(memEvents) : DatesOrdered(memEvents[i])
    /\ \A i \in 1..Len(mongoDocs) : DatesOrdered(doc_fields(mongoDocs[i]))

C4_BackwardsUpdateRejected ==
    LET c == last' IN
    c.op = "update" /\ InMemory_get_event(memEvents, c.user_id, c.event_id).kind = "ok" =>
        LET event == InMemory_get_event(memEvents, c.user_id, c.event_id).event IN
        ~DatesOrdered(model_copy(event, c.payload)) =>
            /\ c.mem = StructuralError /\ c.mongo = StructuralError
            /\ memEvents' = memEvents /\ mongoDocs' = mongoDocs

C4_EndNotBeforeStart == []C4_StoredDatesOrdered /\ [][C4_BackwardsUpdateRejected]_vars

----------------------------------------------------------------------------
(* C5: after any sequence of EventService.create_event / update_event calls,  *)
(* every live stored event with is_financial true has a savings_target.       *)

FinancialComplete(e) == e.deleted_at = None /\ e.is_financial = Some(TRUE) => e.savings_target # None

C5_FinancialHasTarget ==
    /\ \A i \in 1..Len(memEvents) : FinancialComplete(memEvents[i])
    /\ \A i \in 1..Len(mongoDocs) : FinancialComplete(mongoDocs[i])

----------------------------------------------------------------------------
(* C6: getEvent, updateEvent and deleteEvent on an id that is never assigned, *)
(* malformed, soft-deleted or owned by another user all return the same        *)
(* not-found outcome (None, None, False), never raise, and change no record.   *)

NeverAssigned(events, id) == id # MalformedId /\ ~HasId(events, id)
Malformed(id) == id = MalformedId
SoftDeleted(events, id) == HasId(events, id) /\ events[IndexOf(events, id)].deleted_at # None
OtherUsers(events, u, id) == HasId(events, id) /\ Owner(events, id) # u

Missing(events, u, id) ==
    \/ NeverAssigned(events, id) \/ Malformed(id)
    \/ SoftDeleted(events, id) \/ OtherUsers(events, u, id)

AnyUpdates == RouteUpdates \cup ScopeUpdates \cup ServiceUpdates \cup SummaryUpdates

MongoIds == [i \in 1..Len(mongoDocs) |-> doc_fields(mongoDocs[i])]

C6_NotFoundUniform ==
    \A u \in Users, id \in EventIds :
        /\ Missing(memEvents, u, id) =>
              /\ InMemory_get_event(memEvents, u, id) = NotFound
              /\ InMemory_delete_event(memEvents, u, id, clock + 1)
                    = [events |-> memEvents, result |-> Bool(FALSE)]
              /\ \A p \in AnyUpdates :
                    /\ InMemory_update_event(memEvents, u, id, p, clock + 1)
                          = [events |-> memEvents, result |-> NotFound]
                    /\ Service_update_InMemory(memEvents, u, id, p, clock + 1)
                          = [events |-> memEvents, result |-> NotFound]
        /\ Missing(MongoIds, u, id) =>
              /\ Mongo_get_event(mongoDocs, u, id) = NotFound
              /\ Mongo_delete_event(mongoDocs, u, id, clock + 1)
                    = [docs |-> mongoDocs, result |-> Bool(FALSE)]
              /\ \A p \in AnyUpdates :
                    /\ Mongo_update_event(mongoDocs, u, id, p, clock + 1)
                          = [docs |-> mongoDocs, result |-> NotFound]
                    /\ Service_update_Mongo(mongoDocs, u, id, p, clock + 1)
                          = [docs |-> mongoDocs, result |-> NotFound]

(* An update of one's own soft-deleted event has just come back not-found,   *)
(* while another user's live event is in the store                           *)
C6_Witness ==
    /\ last.op = "update" /\ DOMAIN last.payload # {}
    /\ last.mem = NotFound /\ last.mongo = NotFound
    /\ SoftDeleted(memEvents, last.event_id) /\ Owner(memEvents, last.event_id) = last.user_id
    /\ \E id \in EventIds :
          OtherUsers(memEvents, last.user_id, id) /\ ~SoftDeleted(memEvents, id)

----------------------------------------------------------------------------
(* C7: deleteEvent(user, id) returns true exactly when a live record with     *)
(* that id owned by that user exists at the call; it then tombstones it, and   *)
(* otherwise (such as a second delete) changes nothing.                        *)

LiveOwned(events, u, id) == ~Missing(events, u, id)

C7_DeleteStep ==
    last'.op = "delete" =>
        LET u == last'.user_id
            id == last'.event_id
        IN /\ last'.mem = Bool(LiveOwned(memEvents, u, id))
           /\ last'.mongo = Bool(LiveOwned(MongoIds, u, id))
           /\ LiveOwned(memEvents, u, id) => id \in Tombstoned(memEvents')
           /\ LiveOwned(MongoIds, u, id) => id \in TombstonedDocs(mongoDocs')
           /\ ~LiveOwned(memEvents, u, id) => memEvents' = memEvents
           /\ ~LiveOwned(MongoIds, u, id) => mongoDocs' = mongoDocs

C7_DeleteTrueIffLive == [][C7_DeleteStep]_vars

(* The owner's second delete of the same id has just returned false *)
C7_Witness ==
    /\ last.op = "delete" /\ last.mem = Bool(FALSE) /\ last.mongo = Bool(FALSE)
    /\ SoftDeleted(memEvents, last.event_id) /\ Owner(memEvents, last.event_id) = last.user_id

----------------------------------------------------------------------------
(* C8: in every store state, for every user, filter combination, sort, page   *)
(* and page_size, listEvents returns total = the number of live events of the  *)
(* user that match the filters, and at most page_size items; in both backends. *)

MatchesFilters(e, q) ==
    /\ e.deleted_at = None /\ e.user_id = q.user_id
    /\ (q.status # None => e.status = q.status)
    /\ (q.category # None => e.category = q.category)
    /\ (q.year # None => e.start_date # None /\ Year(e.start_date[1]) = q.year[1])

MatchCount(events, q) == Cardinality({i \in 1..Len(events) : MatchesFilters(events[i], q)})

TotalAndPage(r, events, q) ==
    r.kind = "list" /\ r.total = MatchCount(events, q) /\ Len(r.items) <= q.page_size

C8_TotalAndPageSize ==
    \A u \in Users :
        \A q \in Queries(u, 1..MaxPage, 1..MaxPageSize) :
            /\ TotalAndPage(InMemory_list_events(memEvents, q), memEvents, q)
            /\ \A r \in Mongo_list_events(mongoDocs, q) : TotalAndPage(r, MongoIds, q)

(* The same, for the stores in which every live event still passes the        *)
(* entity's validation                                                         *)
HasInvalidLive(events) ==
    \E i \in 1..Len(events) : events[i].deleted_at = None /\ ~EventBase_valid(events[i])

C8_TotalAndPageSizeOfValidStore ==
    ~HasInvalidLive(memEvents) /\ ~HasInvalidLive(MongoIds) => C8_TotalAndPageSize

(* A listing has just returned a full page that is shorter than its total *)
C8_Witness ==
    /\ last.op = "list" /\ last.mem.kind = "list" /\ last.mongo.kind = "list"
    /\ Len(last.mem.items) = last.payload.page_size /\ last.mem.total > last.payload.page_size
    /\ Len(last.mongo.items) = last.payload.page_size /\ last.mongo.total = last.mem.total

----------------------------------------------------------------------------
(* C9: in both backends a listing sorted by priority is ordered by rank in    *)
(* the requested direction, and events of equal rank are in ascending          *)
(* start_date order whichever direction was requested.                         *)

RankOf(e) == PRIORITY_RANK[e.priority[1]]

PriorityOrdered(items, sort_order) ==
    \A i, j \in 1..Len(items) :
        i < j =>
            /\ sort_order = "asc" => RankOf(items[i]) <= RankOf(items[j])
            /\ sort_order = "desc" => RankOf(items[i]) >= RankOf(items[j])
            /\ RankOf(items[i]) = RankOf(items[j]) =>
                  items[i].start_date[1] <= items[j].start_date[1]

C9_PriorityOrder ==
    \A u \in Users :
        \A q \in {x \in FullQueries(u) : x.sort_by = "priority"} :
            /\ InMemory_list_events(memEvents, q).kind = "list" =>
                  PriorityOrdered(InMemory_list_events(memEvents, q).items, q.sort_order)
            /\ \A r \in Mongo_list_events(mongoDocs, q) :
                  r.kind = "list" => PriorityOrdered(r.items, q.sort_order)

----------------------------------------------------------------------------
(* C10: EventService.create_event and update_event (on an existing live       *)
(* event) fail with "financial events must include savings_target" exactly     *)
(* when the effective is_financial is true and the effective savings_target    *)
(* is null -- effective meaning the partial's value when the partial supplies  *)
(* the field, the stored value otherwise -- and a failing call writes nothing. *)

Effective(payload, existing, f) == IF f \in DOMAIN payload THEN payload[f] ELSE existing[f]

FinancialIncomplete(is_financial, savings_target) ==
    is_financial = Some(TRUE) /\ savings_target = None

C10_ServiceStep ==
    LET c == last' IN
    /\ c.op = "service_create" =>
          /\ (c.mem = RuleError(FinancialMessage))
                <=> FinancialIncomplete(c.payload.is_financial, c.payload.savings_target)
          /\ (c.mongo = RuleError(FinancialMessage))
                <=> FinancialIncomplete(c.payload.is_financial, c.payload.savings_target)
          /\ c.mem.kind = "rule_error" => memEvents' = memEvents /\ mongoDocs' = mongoDocs
    /\ c.op = "service_update" =>
          LET mem == InMemory_get_event(memEvents, c.user_id, c.event_id)
              mongo == Mongo_get_event(mongoDocs, c.user_id, c.event_id)
          IN /\ mem.kind = "ok" =>
                   /\ (c.mem = RuleError(FinancialMessage))
                         <=> FinancialIncomplete(Effective(c.payload, mem.event, "is_financial"),
                                                 Effective(c.payload, mem.event, "savings_target"))
                   /\ c.mem.kind = "rule_error" => memEvents' = memEvents
             /\ mongo.kind = "ok" =>
                   /\ (c.mongo = RuleError(FinancialMessage))
                         <=> FinancialIncomplete(Effective(c.payload, mongo.event, "is_financial"),
                                                 Effective(c.payload, mongo.event, "savings_target"))
                   /\ c.mongo.kind = "rule_error" => mongoDocs' = mongoDocs

C10_FinancialRuleExact == [][C10_ServiceStep]_vars

----------------------------------------------------------------------------
(* C11: EventService.create_event and update_event (on an existing live       *)
(* event) fail with "completed events cannot have a future start/end date"     *)
(* exactly when the financial rule, which runs first, passes and the effective *)
(* status is completed with the effective date (end_date if present, else      *)
(* start_date) strictly after today; a failing call writes nothing.            *)

CompletedInFuture(status, start_date, end_date) ==
    /\ status = Some("completed")
    /\ LET effective_date == IF end_date # None THEN end_date ELSE start_date
       IN effective_date # None /\ effective_date[1] > Today

CompletionFails(payload, existing) ==
    /\ ~FinancialIncomplete(Effective(payload, existing, "is_financial"),
                            Effective(payload, existing, "savings_target"))
    /\ CompletedInFuture(Effective(payload, existing, "status"),
                         Effective(payload, existing, "start_date"),
                         Effective(payload, existing, "end_date"))

C11_ServiceStep ==
    LET c == last' IN
    /\ c.op = "service_create" =>
          /\ (c.mem = RuleError(CompletionMessage)) <=> CompletionFails(EmptyUpdate, c.payload)
          /\ (c.mongo = RuleError(CompletionMessage)) <=> CompletionFails(EmptyUpdate, c.payload)
          /\ c.mem.kind = "rule_error" => memEvents' = memEvents /\ mongoDocs' = mongoDocs
    /\ c.op = "service_update" =>
          LET mem == InMemory_get_event(memEvents, c.user_id, c.event_id)
              mongo == Mongo_get_event(mongoDocs, c.user_id, c.event_id)
          IN /\ mem.kind = "ok" =>
                   /\ (c.mem = RuleError(CompletionMessage)) <=> CompletionFails(c.payload, mem.event)
                   /\ c.mem.kind = "rule_error" => memEvents' = memEvents
             /\ mongo.kind = "ok" =>
                   /\ (c.mongo = RuleError(CompletionMessage))
                         <=> CompletionFails(c.payload, mongo.event)
                   /\ c.mongo.kind = "rule_error" => mongoDocs' = mongoDocs

C11_CompletionRuleExact == [][C11_ServiceStep]_vars

----------------------------------------------------------------------------
(* C12: a create or update request through the events routes that breaks one *)
(* of the two business rules is answered with the rule's error and nothing is *)
(* stored or changed.                                                          *)

BreaksRule(payload, existing) ==
    \/ FinancialIncomplete(Effective(payload, existing, "is_financial"),
                           Effective(payload, existing, "savings_target"))
    \/ CompletionFails(payload, existing)

C12_RouteStep ==
    LET c == last' IN
    /\ c.op = "create" /\ BreaksRule(EmptyUpdate, c.payload) =>
          /\ c.mem.kind = "rule_error" /\ c.mongo.kind = "rule_error"
          /\ memEvents' = memEvents /\ mongoDocs' = mongoDocs
    /\ c.op = "update" =>
          LET mem == InMemory_get_event(memEvents, c.user_id, c.event_id) IN
          mem.kind = "ok" /\ BreaksRule(c.payload, mem.event) =>
              /\ c.mem.kind = "rule_error" /\ c.mongo.kind = "rule_error"
              /\ memEvents' = memEvents /\ mongoDocs' = mongoDocs

C12_RoutesApplyRules == [][C12_RouteStep]_vars

----------------------------------------------------------------------------
(* C13: for every event a read returns, savings_progress_pct and              *)
(* is_fully_funded are both null iff the event is not financial or its         *)
(* savings_target is absent or <= 0; otherwise is_fully_funded is              *)
(* (amount_saved >= savings_target) and savings_progress_pct is                *)
(* min(100, amount_saved / savings_target * 100 rounded to 2 places), an       *)
(* absent amount_saved counting as 0; so is_fully_funded is true exactly when  *)
(* the percentage is 100 with amount_saved >= savings_target.                  *)

ReturnedEvents(result) ==
    IF result.kind = "ok" THEN {result.event}
    ELSE IF result.kind = "list" THEN {result.items[i] : i \in 1..Len(result.items)}
    ELSE {}

(* p hundredths is the ratio n / d in hundredths, rounded to the nearest *)
NearestHundredth(p, n, d) == 2 * p * d - 2 * n <= d /\ 2 * n - 2 * p * d <= d

ComputedFieldsOf(e) ==
    LET body == Serialized(e)
        absent == \/ e.is_financial # Some(TRUE)
                  \/ e.savings_target = None \/ e.savings_target[1] <= 0
        saved == IF e.amount_saved = None THEN 0 ELSE e.amount_saved[1]
    IN /\ absent <=> body.savings_progress_pct = None /\ body.is_fully_funded = None
       /\ (body.savings_progress_pct = None) <=> (body.is_fully_funded = None)
       /\ ~absent =>
             LET target == e.savings_target[1]
                 pct == body.savings_progress_pct[1]
             IN /\ body.is_fully_funded = Some(saved >= target)
                /\ pct <= 10000
                /\ \/ pct = 10000 /\ 2 * saved * 10000 >= 2 * 10000 * target - target
                   \/ pct < 10000 /\ NearestHundredth(pct, saved * 10000, target)
                /\ (body.is_fully_funded = Some(TRUE)) <=> (pct = 10000 /\ saved >= target)

C13_ComputedFields ==
    \A e \in ReturnedEvents(last.mem) \cup ReturnedEvents(last.mongo) : ComputedFieldsOf(e)

(* A read has just returned an overfunded event (ratio above 100) and one     *)
(* whose percentage rounds to 100 without being fully funded                   *)
C13_Witness ==
    /\ last.op = "list"
    /\ \E e \in ReturnedEvents(last.mem) \cap ReturnedEvents(last.mongo) :
          e.savings_target = Some(1) /\ e.amount_saved = Some(MaxAmount)
    /\ \E e \in ReturnedEvents(last.mem) \cap ReturnedEvents(last.mongo) :
          /\ savings_progress_pct(e) = Some(10000) /\ is_fully_funded(e) = Some(FALSE)

----------------------------------------------------------------------------
(* C14: a successful update with a non-empty partial changes exactly the      *)
(* supplied fields (to the supplied values) and updated_at: every field not    *)
(* supplied, id, user_id, created_at and deleted_at included, keeps its value, *)
(* and no other event in the store changes; in both backends.                  *)

UpdateOps == {"update", "service_update"}

OnlySuppliedChanged(old, new, payload) ==
    /\ DOMAIN new = DOMAIN old
    /\ \A f \in DOMAIN old \ (DOMAIN payload \cup {"updated_at"}) : new[f] = old[f]
    /\ \A f \in DOMAIN payload : new[f] = payload[f]
    /\ new.updated_at = clock' /\ new.updated_at > old.updated_at

C14_UpdateStep ==
    LET c == last' IN
    c.op \in UpdateOps /\ DOMAIN c.payload # {} =>
        /\ c.mem.kind = "ok" =>
              LET i == IndexOf(memEvents, c.event_id) IN
              /\ Len(memEvents') = Len(memEvents)
              /\ OnlySuppliedChanged(memEvents[i], memEvents'[i], c.payload)
              /\ c.mem.event = memEvents'[i]
              /\ \A j \in 1..Len(memEvents) : j # i => memEvents'[j] = memEvents[j]
        /\ c.mongo.kind = "ok" =>
              LET i == CHOOSE j \in 1..Len(mongoDocs) : mongoDocs[j]["_id"] = c.event_id IN
              /\ Len(mongoDocs') = Len(mongoDocs)
              /\ OnlySuppliedChanged(doc_fields(mongoDocs[i]), doc_fields(mongoDocs'[i]), c.payload)
              /\ c.mongo.event = doc_fields(mongoDocs'[i])
              /\ \A j \in 1..Len(mongoDocs) : j # i => mongoDocs'[j] = mongoDocs[j]

C14_UpdateFrame == [][C14_UpdateStep]_vars

(* An update of the notes of an event that carries optional fields has just   *)
(* succeeded in both backends, with another user's event in the store          *)
C14_Witness ==
    /\ last.op = "update" /\ DOMAIN last.payload = {"notes"}
    /\ last.mem.kind = "ok" /\ last.mongo.kind = "ok"
    /\ last.mem.event.notes = Some("Accepted offer") /\ last.mem.event.timeline_phase # None
    /\ last.mem.event.updated_at > last.mem.event.created_at
    /\ \E i \in 1..Len(memEvents) : memEvents[i].user_id # last.user_id

----------------------------------------------------------------------------
(* C15: an update with an empty partial on a live event owned by the caller   *)
(* is a no-op in both backends: it returns the event's current state and       *)
(* leaves the stored record, updated_at included, as it was.                   *)

C15_EmptyUpdateStep ==
    LET c == last' IN
    c.op \in UpdateOps /\ DOMAIN c.payload = {} /\ LiveOwned(memEvents, c.user_id, c.event_id) =>
        /\ c.mem = InMemory_get_event(memEvents, c.user_id, c.event_id)
        /\ c.mongo = Mongo_get_event(mongoDocs, c.user_id, c.event_id)
        /\ memEvents' = memEvents
        /\ mongoDocs' = mongoDocs

C15_EmptyUpdateNoOp == [][C15_EmptyUpdateStep]_vars

----------------------------------------------------------------------------
(* C16: in every store state a listing selects exactly the events that are    *)
(* live, owned by the user and satisfy every supplied filter (status equal,    *)
(* category equal, Jan 1 of year <= start_date < Jan 1 of year + 1); both      *)
(* backends select the same set.                                               *)

InYear(d, y) == Jan1(y) <= d /\ d < Jan1(y + 1)

Selected(e, q) ==
    /\ e.deleted_at = None /\ e.user_id = q.user_id
    /\ (q.status # None => e.status = q.status)
    /\ (q.category # None => e.category = q.category)
    /\ (q.year # None => e.start_date # None /\ InYear(e.start_date[1], q.year[1]))

SelectedIds(events, q) == {events[i].id : i \in {j \in 1..Len(events) : Selected(events[j], q)}}

C16_FiltersSelect ==
    \A u \in Users :
        \A q \in FullQueries(u) :
            /\ InMemory_list_events(memEvents, q).kind = "list"
            /\ ItemIds(InMemory_list_events(memEvents, q)) = SelectedIds(memEvents, q)
            /\ \A r \in Mongo_list_events(mongoDocs, q) :
                  r.kind = "list" /\ ItemIds(r) = SelectedIds(MongoIds, q)

(* The same, for the stores in which every live event still passes the        *)
(* entity's validation                                                         *)
C16_FiltersSelectOfValidStore ==
    ~HasInvalidLive(memEvents) /\ ~HasInvalidLive(MongoIds) => C16_FiltersSelect

----------------------------------------------------------------------------
(* C17: in every store state, for every user, the overview summary has        *)
(* total_events = the number of live events of the user; by_status[s] = the    *)
(* number of them with status s, for exactly the statuses they hold, so the    *)
(* counts sum to total_events; by_timeline_phase[p] likewise for the phases    *)
(* they hold, events without a phase counted nowhere; and both backends        *)
(* return the same summary.                                                    *)

LiveOf(events, u) == {i \in 1..Len(events) : events[i].deleted_at = None /\ events[i].user_id = u}

RECURSIVE SumCounts(_, _)
SumCounts(counts, keys) ==
    IF keys = {} THEN 0
    ELSE LET k == CHOOSE x \in keys : TRUE IN counts[k] + SumCounts(counts, keys \ {k})

GroupedBy(counts, events, live, field) ==
    /\ DOMAIN counts = {events[i][field][1] : i \in {j \in live : events[j][field] # None}}
    /\ \A k \in DOMAIN counts :
          counts[k] = Cardinality({i \in live : events[i][field] = Some(k)})

OverviewOf(r, events, u) ==
    /\ r.kind = "overview"
    /\ r.total_events = Cardinality(LiveOf(events, u))
    /\ GroupedBy(r.by_status, events, LiveOf(events, u), "status")
    /\ SumCounts(r.by_status, DOMAIN r.by_status) = r.total_events
    /\ GroupedBy(r.by_timeline_phase, events, LiveOf(events, u), "timeline_phase")

C17_OverviewCounts ==
    \A u \in Users :
        /\ OverviewOf(InMemory_get_overview_summary(memEvents, u), memEvents, u)
        /\ \A r \in Mongo_get_overview_summary(mongoDocs, u) :
              OverviewOf(r, MongoIds, u) /\ r = InMemory_get_overview_summary(memEvents, u)

(* The same, for the stores in which every live event still passes the        *)
(* entity's validation and the groups fit the cursor's limit                   *)
C17_OverviewCountsOfValidStore ==
    /\ ~HasInvalidLive(memEvents) /\ ~HasInvalidLive(MongoIds)
    /\ Len(mongoDocs) < PhaseGroupLimit
    => C17_OverviewCounts

----------------------------------------------------------------------------
(* C18: in every store state, for every user, the financial summary ranges    *)
(* over exactly the live events of the user with is_financial true:            *)
(* total_savings_target and total_amount_saved are the sums of their           *)
(* savings_target and amount_saved (absent as 0), fully_funded_events is the   *)
(* number of them with savings_target > 0 and amount_saved >= savings_target,  *)
(* which is the number whose computed is_fully_funded is true; and both        *)
(* backends return the same.                                                   *)

LiveFinancial(events, u) == {i \in LiveOf(events, u) : events[i].is_financial = Some(TRUE)}

Amount(x) == IF x = None THEN 0 ELSE x[1]

RECURSIVE SumOver(_, _, _)
SumOver(events, rows, field) ==
    IF rows = {} THEN 0
    ELSE LET i == CHOOSE x \in rows : TRUE
         IN Amount(events[i][field]) + SumOver(events, rows \ {i}, field)

FinancialTotalsOf(r, events, u) ==
    LET rows == LiveFinancial(events, u) IN
    /\ r.kind = "financial"
    /\ r.total_savings_target = SumOver(events, rows, "savings_target")
    /\ r.total_amount_saved = SumOver(events, rows, "amount_saved")
    /\ r.fully_funded_events =
          Cardinality({i \in rows : /\ Amount(events[i].savings_target) > 0
                                    /\ Amount(events[i].amount_saved)
                                          >= Amount(events[i].savings_target)})
    /\ r.fully_funded_events =
          Cardinality({i \in rows : is_fully_funded(events[i]) = Some(TRUE)})

C18_FinancialTotals ==
    \A u \in Users, next_years \in 1..MaxNextYears :
        /\ FinancialTotalsOf(InMemory_get_financial_summary(memEvents, u, next_years), memEvents, u)
        /\ FinancialTotalsOf(Mongo_get_financial_summary(mongoDocs, u, next_years), MongoIds, u)
        /\ InMemory_get_financial_summary(memEvents, u, next_years)
              = Mongo_get_financial_summary(mongoDocs, u, next_years)

(* The same, for the stores in which every live event still passes the        *)
(* entity's validation and the financial events fit the cursor's limit         *)
C18_FinancialTotalsOfValidStore ==
    /\ ~HasInvalidLive(memEvents) /\ ~HasInvalidLive(MongoIds)
    /\ Len(mongoDocs) <= FinancialFindLimit
    => C18_FinancialTotals

----------------------------------------------------------------------------
(* C19: the financial summary's upcoming_financial_events is the number of    *)
(* live financial events of the user whose start_date d satisfies              *)
(* today <= d < January 1 of (current year + next_years): an event starting    *)
(* today is counted, one starting yesterday or on that January 1 is not.       *)

Upcoming(e, next_years) ==
    /\ e.start_date # None
    /\ Today <= e.start_date[1]
    /\ e.start_date[1] < Jan1(Year(Today) + next_years)

UpcomingOf(r, events, u, next_years) ==
    /\ r.kind = "financial"
    /\ r.next_years = next_years
    /\ r.upcoming_financial_events =
          Cardinality({i \in LiveFinancial(events, u) : Upcoming(events[i], next_years)})

C19_UpcomingCount ==
    \A u \in Users, next_years \in 1..MaxNextYears :
        /\ UpcomingOf(InMemory_get_financial_summary(memEvents, u, next_years),
                      memEvents, u, next_years)
        /\ UpcomingOf(Mongo_get_financial_summary(mongoDocs, u, next_years),
                      MongoIds, u, next_years)

(* The same, for the stores in which every live event still passes the        *)
(* entity's validation                                                         *)
C19_UpcomingCountOfValidStore ==
    ~HasInvalidLive(memEvents) /\ ~HasInvalidLive(MongoIds) => C19_UpcomingCount

(* A summary over one year has just counted the event starting today and not  *)
(* the one starting on the next January 1                                      *)
C19_Boundaries ==
    /\ last.op = "financial" /\ last.payload.next_years = 1
    /\ last.mem.kind = "financial" /\ last.mem.upcoming_financial_events = 1
    /\ last.mongo = last.mem
    /\ \E i, j \in LiveFinancial(memEvents, last.user_id) :
          /\ memEvents[i].start_date = Some(Today)
          /\ memEvents[j].start_date = Some(Jan1(Year(Today) + 1))

----------------------------------------------------------------------------
(* C20: when startup completes exactly one backend has been selected and it   *)
(* never changes afterwards: in test mode the volatile backend; otherwise the  *)
(* persistent backend if connecting and index creation succeeded within the    *)
(* timeout; if they failed, the volatile backend iff the in-memory fallback is *)
(* enabled, and otherwise startup fails and the application never serves.      *)

Backends == {"InMemoryEventRepository", "MongoEventRepository"}

C20_Selected ==
    app.phase = "serving" =>
        /\ app.events_repository \in Backends
        /\ app.app_env = "test" => app.events_repository = "InMemoryEventRepository"
        /\ app.app_env # "test" /\ app.mongo_server = "up" =>
              app.events_repository = "MongoEventRepository"
        /\ app.app_env # "test" /\ app.mongo_server # "up" =>
              /\ app.allow_in_memory_fallback
              /\ app.events_repository = "InMemoryEventRepository"

C20_FailsWithoutFallback ==
    app.phase = "failed" =>
        /\ app.app_env # "test"
        /\ app.mongo_server # "up"
        /\ ~app.allow_in_memory_fallback

C20_Step ==
    /\ app.phase = "serving" /\ app'.phase = "serving" =>
          app'.events_repository = app.events_repository
    /\ app.phase = "serving" => app'.phase \in {"serving", "stopped"}
    /\ app.phase \in {"failed", "stopped"} => app' = app /\ last' = last
    /\ last' # last => app.phase = "serving" /\ app'.phase = "serving"

C20_BackendSelectedOnce == [](C20_Selected /\ C20_FailsWithoutFallback) /\ [][C20_Step]_vars

(* The part of C20 the startup does keep: whatever was selected by the time    *)
(* the application serves is one backend, it stays, and a failed startup       *)
(* serves nothing                                                               *)
C20_SelectionIsFinal ==
    [](app.phase = "serving" => app.events_repository \in Backends) /\ [][C20_Step]_vars

(* A request served by the backend selected in test mode *)
C20_ServedInTestMode ==
    /\ app.phase = "serving" /\ app.app_env = "test"
    /\ app.events_repository = "InMemoryEventRepository"
    /\ last.op = "get" /\ last.mem.kind = "ok"

(* Startup has failed although the server is up, and although the fallback is  *)
(* enabled                                                                      *)
C20_FailedWithServerUp ==
    app.phase = "failed" /\ app.mongo_server = "up" /\ app.allow_in_memory_fallback

----------------------------------------------------------------------------
(* C21: every createEvent assigns an id no stored record (live or             *)
(* soft-deleted) has and stores the event under the caller's user id whatever  *)
(* user_id the payload carried; through every later update and delete the      *)
(* record's id, user_id and created_at never change.                           *)

CreateOps == {"create", "service_create"}

Identity(e) == [id |-> e.id, user_id |-> e.user_id, created_at |-> e.created_at]
DocIdentity(doc) == [id |-> doc["_id"], user_id |-> doc.user_id, created_at |-> doc.created_at]

IdsOf(events) == {events[i].id : i \in 1..Len(events)}
DocIdsOf(docs) == {docs[i]["_id"] : i \in 1..Len(docs)}

C21_IdsUnique ==
    /\ \A i, j \in 1..Len(memEvents) : memEvents[i].id = memEvents[j].id => i = j
    /\ \A i, j \in 1..Len(mongoDocs) : mongoDocs[i]["_id"] = mongoDocs[j]["_id"] => i = j

C21_Step ==
    /\ Len(memEvents') >= Len(memEvents) /\ Len(mongoDocs') >= Len(mongoDocs)
    /\ \A i \in 1..Len(memEvents) : Identity(memEvents'[i]) = Identity(memEvents[i])
    /\ \A i \in 1..Len(mongoDocs) : DocIdentity(mongoDocs'[i]) = DocIdentity(mongoDocs[i])
    /\ last'.op \in CreateOps /\ last'.mem.kind = "ok" =>
          /\ Len(memEvents') = Len(memEvents) + 1 /\ Len(mongoDocs') = Len(mongoDocs) + 1
          /\ LET e == memEvents'[Len(memEvents')]
                 doc == mongoDocs'[Len(mongoDocs')]
             IN /\ e.id \notin IdsOf(memEvents) /\ doc["_id"] \notin DocIdsOf(mongoDocs)
                /\ e.user_id = last'.user_id /\ doc.user_id = last'.user_id
                /\ last'.mem.event = e
                /\ last'.mongo.kind = "ok" /\ last'.mongo.event.id = doc["_id"]
                /\ last'.mongo.event.user_id = last'.user_id

C21_IdentityFixed == []C21_IdsUnique /\ [][C21_Step]_vars

(* A record created for a caller other than the one its payload named, then   *)
(* updated, then soft-deleted                                                  *)
C21_Witness ==
    /\ last.op = "delete" /\ last.mem = Bool(TRUE) /\ last.mongo = Bool(TRUE)
    /\ \E i \in 1..Len(memEvents) :
          /\ memEvents[i].id = last.event_id
          /\ memEvents[i].user_id = last.user_id /\ memEvents[i].user_id # BasePayload.user_id
          /\ memEvents[i].notes = Some("Accepted offer")
          /\ memEvents[i].created_at < memEvents[i].updated_at

----------------------------------------------------------------------------
(* C22: in EventService.update_event, for each of is_financial,               *)
(* savings_target, status, start_date and end_date, the value the business     *)
(* rules evaluate is the partial's value whenever the partial supplies the     *)
(* field (an explicit null included) and the stored value otherwise: the rules *)
(* are evaluated on exactly the values the record holds once the backend has   *)
(* applied the same partial.                                                   *)

RuleFields == {"is_financial", "savings_target", "status", "start_date", "end_date"}

C22_ServiceStep ==
    LET c == last' IN
    c.op = "service_update" =>
        LET mem == InMemory_get_event(memEvents, c.user_id, c.event_id)
            mongo == Mongo_get_event(mongoDocs, c.user_id, c.event_id)
        IN /\ mem.kind = "ok" =>
                 /\ \A f \in RuleFields :
                       Service_next(c.payload, mem.event, f) = Effective(c.payload, mem.event, f)
                 /\ c.mem.kind = "ok" =>
                       \A f \in RuleFields :
                           c.mem.event[f] = Service_next(c.payload, mem.event, f)
           /\ mongo.kind = "ok" =>
                 /\ \A f \in RuleFields :
                       Service_next(c.payload, mongo.event, f) = Effective(c.payload, mongo.event, f)
                 /\ c.mongo.kind = "ok" =>
                       \A f \in RuleFields :
                           c.mongo.event[f] = Service_next(c.payload, mongo.event, f)

C22_RulesSeeEffectiveValues == [][C22_ServiceStep]_vars

(* What holds: on partials that supply no explicit null the rules see the      *)
(* effective values                                                             *)
C22_ServiceStepWithoutNulls ==
    last'.op = "service_update" /\ (\A f \in DOMAIN last'.payload : last'.payload[f] # None)
        => C22_ServiceStep

C22_RulesSeeEffectiveValuesWithoutNulls == [][C22_ServiceStepWithoutNulls]_vars

----------------------------------------------------------------------------
(* C23: in EventService.create_event and update_event the financial rule is   *)
(* evaluated before the completion-timing rule and the first failure           *)
(* short-circuits: a request violating both rules fails with "financial events *)
(* must include savings_target", never with the completion-timing message;     *)
(* both rules are evaluated before any write to the backend.                   *)

ViolatesBoth(payload, existing) ==
    /\ FinancialIncomplete(Effective(payload, existing, "is_financial"),
                           Effective(payload, existing, "savings_target"))
    /\ CompletedInFuture(Effective(payload, existing, "status"),
                         Effective(payload, existing, "start_date"),
                         Effective(payload, existing, "end_date"))

C23_ServiceStep ==
    LET c == last' IN
    /\ c.op = "service_create" =>
          /\ ViolatesBoth(EmptyUpdate, c.payload) =>
                c.mem = RuleError(FinancialMessage) /\ c.mongo = RuleError(FinancialMessage)
          /\ c.mem.kind = "rule_error" \/ c.mongo.kind = "rule_error" =>
                memEvents' = memEvents /\ mongoDocs' = mongoDocs
    /\ c.op = "service_update" =>
          LET mem == InMemory_get_event(memEvents, c.user_id, c.event_id)
              mongo == Mongo_get_event(mongoDocs, c.user_id, c.event_id)
          IN /\ mem.kind = "ok" /\ ViolatesBoth(c.payload, mem.event) =>
                   c.mem = RuleError(FinancialMessage)
             /\ mongo.kind = "ok" /\ ViolatesBoth(c.payload, mongo.event) =>
                   c.mongo = RuleError(FinancialMessage)
             /\ c.mem.kind = "rule_error" => memEvents' = memEvents
             /\ c.mongo.kind = "rule_error" => mongoDocs' = mongoDocs

C23_FinancialRuleFirst == [][C23_ServiceStep]_vars

(* What holds: the order of the two rules on creates and on partials that      *)
(* supply no explicit null                                                      *)
C23_ServiceStepWithoutNulls ==
    \/ last'.op = "service_create" /\ C23_ServiceStep
    \/ last'.op = "service_update"
         /\ ((\A f \in DOMAIN last'.payload : last'.payload[f] # None) => C23_ServiceStep)
    \/ last'.op \notin {"service_create", "service_update"}

C23_FinancialRuleFirstWithoutNulls == [][C23_ServiceStepWithoutNulls]_vars

(* A create violating both rules has just failed with the financial message *)
C23_BothViolatedOnCreate ==
    /\ last.op = "service_create" /\ ViolatesBoth(EmptyUpdate, last.payload)
    /\ last.mem = RuleError(FinancialMessage)

----------------------------------------------------------------------------
(* C24: on the persistent backend update_event with a non-empty partial is    *)
(* two steps, the conditional write and the refetch.  It returns not-found     *)
(* only if the record was not live for the user at the write or at the         *)
(* refetch; when a concurrent delete_event of the same id lands between the    *)
(* two steps, update_event returns not-found although its write was applied,   *)
(* and the record ends soft-deleted carrying the updated fields.               *)

DocOf(docs, id) == docs[CHOOSE i \in 1..Len(docs) : docs[i]["_id"] = id]

Carries(doc, payload) ==
    \A f \in DOMAIN payload : doc[f] = model_dump_json(payload)[f]

(* The write step of a repository-level update *)
C24_WriteStep ==
    \A t \in Tasks :
        inflight[t].pc = "idle" /\ inflight'[t].op = "update" =>
            LET c == inflight'[t] IN
            IF HasDoc(mongoDocs, c.user_id, c.event_id)
            THEN /\ c.pc = "refetch"
                 /\ Carries(DocOf(mongoDocs', c.event_id), c.payload)
                 /\ DocOf(mongoDocs', c.event_id).deleted_at = None
            ELSE /\ c.pc = "done" /\ c.mongo = NotFound
                 /\ mongoDocs' = mongoDocs

(* The refetch step: not-found exactly when the record is no longer live *)
C24_RefetchStep ==
    \A t \in Tasks :
        inflight[t].pc = "refetch" /\ inflight'[t].pc = "done" =>
            LET c == inflight'[t] IN
            /\ mongoDocs' = mongoDocs
            /\ (c.mongo = NotFound) <=> ~HasDoc(mongoDocs, c.user_id, c.event_id)
            /\ c.mongo = NotFound =>
                  /\ DocOf(mongoDocs, c.event_id).deleted_at # None
                  /\ Carries(DocOf(mongoDocs, c.event_id), c.payload)
            /\ c.mongo # NotFound =>
                  /\ c.mongo.kind = "ok"
                  /\ \A f \in DOMAIN c.payload : c.mongo.event[f] = c.payload[f]

(* A delete of the same id landing between the two steps succeeds and keeps    *)
(* what the update wrote                                                        *)
C24_DeleteBetween ==
    \A t, d \in Tasks :
        /\ inflight[t].pc = "refetch" /\ inflight'[t] = inflight[t]
        /\ inflight[d].pc = "idle" /\ inflight'[d].op = "delete"
        /\ inflight'[d].event_id = inflight[t].event_id
        /\ inflight'[d].user_id = inflight[t].user_id
        /\ HasDoc(mongoDocs, inflight[t].user_id, inflight[t].event_id)
        => /\ inflight'[d].mongo = Bool(TRUE)
           /\ ~HasDoc(mongoDocs', inflight[t].user_id, inflight[t].event_id)
           /\ Carries(DocOf(mongoDocs', inflight[t].event_id), inflight[t].payload)

C24_UpdateTwoSteps == [][C24_WriteStep /\ C24_RefetchStep /\ C24_DeleteBetween]_vars

(* An update has returned not-found from its refetch: its write was applied    *)
(* (the volatile backend, one step, returned the event) and the record is      *)
(* soft-deleted with the updated notes                                          *)
C24_Witness ==
    \E t \in Tasks :
        /\ inflight[t].pc = "done" /\ inflight[t].op = "update"
        /\ inflight[t].mongo = NotFound /\ inflight[t].mem.kind = "ok"
        /\ \E i \in 1..Len(mongoDocs) :
              /\ mongoDocs[i]["_id"] = inflight[t].event_id
              /\ mongoDocs[i].deleted_at # None
              /\ mongoDocs[i].notes = Some("Accepted offer")

----------------------------------------------------------------------------
(* C25: under every interleaving of two concurrent EventService.update_event  *)
(* calls on the same live event (each reads the existing record, validates,    *)
(* then writes, the other call able to run between the read and the write)     *)
(* the stored event still satisfies both business rules: it is not financial   *)
(* with a null savings_target, and it is not completed with an effective date  *)
(* after the current date.                                                     *)

SatisfiesRules(e) ==
    /\ ~FinancialIncomplete(e.is_financial, e.savings_target)
    /\ ~CompletedInFuture(e.status, e.start_date, e.end_date)

C25_RulesKept ==
    /\ \A i \in 1..Len(memEvents) :
          memEvents[i].deleted_at = None => SatisfiesRules(memEvents[i])
    /\ \A i \in 1..Len(mongoDocs) :
          mongoDocs[i].deleted_at = None => SatisfiesRules(doc_fields(mongoDocs[i]))

(* What holds: the volatile backend, where the whole call is one step, keeps   *)
(* both rules                                                                   *)
C25_RulesKeptInMemory ==
    \A i \in 1..Len(memEvents) :
        memEvents[i].deleted_at = None => SatisfiesRules(memEvents[i])

(* Both calls had read and validated before either wrote *)
C25_BothValidated ==
    \A t \in Tasks : inflight[t].pc = "validated" /\ inflight[t].event_id = 1

----------------------------------------------------------------------------
(* C26: when two delete_event calls for the same live event by its owner run  *)
(* concurrently, under every interleaving exactly one of them returns true and *)
(* the other false, and deleted_at is stamped exactly once; in both backends.  *)

Deleted(t, id) ==
    inflight[t].pc = "done" /\ inflight[t].op = "delete" /\ inflight[t].event_id = id

(* Both calls have returned and the record, there when at least one of them    *)
(* ran, is a tombstone: one true, one false                                     *)
C26_ExactlyOneTrue ==
    \A id \in RaceIds :
        Deleted("t1", id) /\ Deleted("t2", id) /\ id <= Len(memEvents)
        /\ memEvents[id].deleted_at # None =>
            /\ {inflight["t1"].mem, inflight["t2"].mem} = {Bool(TRUE), Bool(FALSE)}
            /\ {inflight["t1"].mongo, inflight["t2"].mongo} = {Bool(TRUE), Bool(FALSE)}

(* A delete returns true exactly when it stamps a live record; a stamp is      *)
(* never written again                                                          *)
C26_DeleteStep ==
    /\ \A t \in Tasks :
          inflight[t].pc = "idle" /\ inflight'[t].op = "delete" =>
              LET c == inflight'[t] IN
              /\ c.mem = Bool(HasId(memEvents, c.event_id)
                              /\ memEvents[IndexOf(memEvents, c.event_id)].deleted_at = None)
              /\ c.mongo = Bool(HasDoc(mongoDocs, c.user_id, c.event_id))
              /\ c.mem = Bool(TRUE) =>
                    memEvents'[IndexOf(memEvents, c.event_id)].deleted_at = Some(clock')
              /\ c.mongo = Bool(TRUE) => DocOf(mongoDocs', c.event_id).deleted_at = Some(clock')
    /\ \A i \in 1..Len(memEvents) :
          memEvents[i].deleted_at # None => memEvents'[i].deleted_at = memEvents[i].deleted_at
    /\ \A i \in 1..Len(mongoDocs) :
          mongoDocs[i].deleted_at # None => mongoDocs'[i].deleted_at = mongoDocs[i].deleted_at

C26_ConcurrentDeletes == []C26_ExactlyOneTrue /\ [][C26_DeleteStep]_vars

(* Both deletes of one event that was live have returned *)
C26_Witness ==
    \E id \in RaceIds :
        /\ Deleted("t1", id) /\ Deleted("t2", id)
        /\ inflight["t2"].mongo = Bool(TRUE) /\ inflight["t1"].mongo = Bool(FALSE)
        /\ id <= Len(mongoDocs) /\ mongoDocs[id].deleted_at # None

----------------------------------------------------------------------------
(* C27: a successful delete_event stamps deleted_at and updated_at on the     *)
(* target record and changes nothing else: the record stays in the store with  *)
(* all its other fields intact, and every other record is unchanged.           *)

Stamps == {"deleted_at", "updated_at"}

OnlyStamped(old, new, now) ==
    /\ DOMAIN new = DOMAIN old
    /\ \A f \in DOMAIN old \ Stamps : new[f] = old[f]
    /\ old.deleted_at = None /\ new.deleted_at # None

C27_DeleteStep ==
    last'.op = "delete" =>
        LET id == last'.event_id IN
        /\ last'.mem = Bool(TRUE) =>
              /\ Len(memEvents') = Len(memEvents)
              /\ \A i \in 1..Len(memEvents) :
                    IF memEvents[i].id = id
                    THEN /\ OnlyStamped(memEvents[i], memEvents'[i], clock')
                         /\ memEvents'[i].deleted_at = Some(clock')
                         /\ memEvents'[i].updated_at = clock'
                         /\ memEvents[i].updated_at < clock'
                    ELSE memEvents'[i] = memEvents[i]
        /\ last'.mongo = Bool(TRUE) =>
              /\ Len(mongoDocs') = Len(mongoDocs)
              /\ \A i \in 1..Len(mongoDocs) :
                    IF mongoDocs[i]["_id"] = id
                    THEN /\ OnlyStamped(mongoDocs[i], mongoDocs'[i], clock')
                         /\ mongoDocs'[i].deleted_at = Some(clock')
                         /\ mongoDocs'[i].updated_at = clock'
                         /\ mongoDocs[i].updated_at < clock'
                    ELSE mongoDocs'[i] = mongoDocs[i]

C27_DeleteFrame == [][C27_DeleteStep]_vars

(* A financial event with savings has just been deleted by its owner, another  *)
(* record beside it                                                             *)
C27_Witness ==
    /\ last.op = "delete" /\ last.mem = Bool(TRUE) /\ last.mongo = Bool(TRUE)
    /\ Len(memEvents) = 2
    /\ memEvents[last.event_id].amount_saved = Some(1)
    /\ mongoDocs[last.event_id].amount_saved = Some(1)
    /\ memEvents[last.event_id].deleted_at = Some(clock)

----------------------------------------------------------------------------
(* C28: tombstones are permanent and there is no hard delete: the set of      *)
(* stored record ids never shrinks, and once a record's deleted_at is non-null *)
(* no later create, update or delete by any user changes any field of that     *)
(* record (deleted_at never returns to null).                                  *)

C28_Step ==
    /\ IdsOf(memEvents) \subseteq IdsOf(memEvents')
    /\ DocIdsOf(mongoDocs) \subseteq DocIdsOf(mongoDocs')
    /\ \A i \in 1..Len(memEvents) :
          memEvents[i].deleted_at # None =>
              \E j \in 1..Len(memEvents') : memEvents'[j] = memEvents[i]
    /\ \A i \in 1..Len(mongoDocs) :
          mongoDocs[i].deleted_at # None =>
              \E j \in 1..Len(mongoDocs') : mongoDocs'[j] = mongoDocs[i]

C28_TombstonesPermanent == [][C28_Step]_vars

(* The owner's update of a tombstone has just come back not-found, with the    *)
(* other user having tried before                                               *)
C28_Witness ==
    /\ last.op = "update" /\ last.mem = NotFound /\ last.mongo = NotFound
    /\ DOMAIN last.payload # {}
    /\ last.event_id \in Tombstoned(memEvents) /\ last.event_id \in TombstonedDocs(mongoDocs)
    /\ Owner(memEvents, last.event_id) = last.user_id

----------------------------------------------------------------------------
(* C29: for a fixed store state, user, filters, sort and page_size, page p of *)
(* list_events holds exactly the elements at positions (p-1)*page_size ..      *)
(* p*page_size-1 of the full sorted matching sequence: concatenating pages     *)
(* 1, 2, ... yields every matching event exactly once, a page past the end is  *)
(* empty, and repeating the same call returns the same items in the same       *)
(* order.                                                                      *)

PageNumbers == 1..(MaxEvents + 1)

(* The queries of one user, page aside *)
Pagings(user_id) == Queries(user_id, {1}, 1..MaxPageSize)

PageOf(q, pg) == model_copy(q, [page |-> pg])

RECURSIVE Concat(_, _)
Concat(results, n) == IF n = 0 THEN <<>> ELSE Concat(results, n - 1) \o results[n].items

ExactlyOnce(items, ids) ==
    /\ Len(items) = Cardinality(ids)
    /\ {items[i].id : i \in 1..Len(items)} = ids

PastTheEnd(q, pg, ids) == (pg - 1) * q.page_size >= Cardinality(ids)

C29_InMemoryPages ==
    \A u \in Users :
        \A q \in Pagings(u) :
            LET results == [pg \in PageNumbers |-> InMemory_list_events(memEvents, PageOf(q, pg))]
                ids == SelectedIds(memEvents, q)
            IN /\ \A pg \in PageNumbers : results[pg].kind = "list"
               /\ ExactlyOnce(Concat(results, MaxEvents + 1), ids)
               /\ \A pg \in PageNumbers : PastTheEnd(q, pg, ids) => results[pg].items = <<>>

(* Every way the store may answer the calls for pages 1, 2, ...: each call has *)
(* one possible answer, and the answers together hold every match once         *)
C29_MongoPages ==
    \A u \in Users :
        \A q \in Pagings(u) :
            LET answers == [pg \in PageNumbers |-> Mongo_list_events(mongoDocs, PageOf(q, pg))]
                ids == SelectedIds(MongoIds, q)
            IN /\ \A pg \in PageNumbers : Cardinality(answers[pg]) = 1
               /\ \A results \in {f \in [PageNumbers -> UNION {answers[pg] : pg \in PageNumbers}] :
                                    \A pg \in PageNumbers : f[pg] \in answers[pg]} :
                     /\ \A pg \in PageNumbers : results[pg].kind = "list"
                     /\ ExactlyOnce(Concat(results, MaxEvents + 1), ids)
                     /\ \A pg \in PageNumbers :
                           PastTheEnd(q, pg, ids) => results[pg].items = <<>>

C29_PagesPartition == C29_InMemoryPages /\ C29_MongoPages

(* What holds: the volatile backend, on stores whose live events are valid *)
C29_InMemoryPagesOfValidStore == ~HasInvalidLive(memEvents) => C29_InMemoryPages

(* What holds: the persistent backend when the sort is by created_at, which no *)
(* two events share                                                             *)
C29_MongoDistinctKeys ==
    \A u \in Users :
        \A q \in {x \in Pagings(u) : x.sort_by = "created_at"} :
            \A pg \in PageNumbers : Cardinality(Mongo_list_events(mongoDocs, PageOf(q, pg))) = 1

----------------------------------------------------------------------------
(* C30: in every state reachable by create / update / delete calls whose      *)
(* payloads each pass EventCreate / EventUpdate validation, every live stored  *)
(* record still satisfies the Event entity's validation, so get_event and      *)
(* list_events for its owner return a result instead of raising; no accepted   *)
(* update (one that nulls a required field or moves end_date before            *)
(* start_date) makes a user's own events unreadable on the persistent backend. *)

C30_Readable ==
    \A u \in Users :
        /\ \A id \in EventIds :
              /\ InMemory_get_event(memEvents, u, id).kind # "raise"
              /\ Mongo_get_event(mongoDocs, u, id).kind # "raise"
        /\ \A q \in FullQueries(u) :
              /\ InMemory_list_events(memEvents, q).kind = "list"
              /\ \A r \in Mongo_list_events(mongoDocs, q) : r.kind = "list"

C30_LiveRecordsValid ==
    /\ ~HasInvalidLive(memEvents)
    /\ ~HasInvalidLive(MongoIds)
    /\ C30_Readable

(* What holds: stores whose live records are all valid are readable *)
C30_ValidStoreReadable ==
    ~HasInvalidLive(memEvents) /\ ~HasInvalidLive(MongoIds) => C30_Readable

----------------------------------------------------------------------------
(* C31: every durable-store client opened by startup is eventually closed:     *)
(* whenever mongo_manager.connect() succeeded during startup,                  *)
(* mongo_manager.close() has been called once the process has finished         *)
(* shutting down, including when index creation then failed or timed out and   *)
(* the application fell back to the volatile backend or aborted startup: no    *)
(* process that has stopped or failed to start still holds an open client.     *)

C31_ClosedAfterServingMongo ==
    /\ app.phase = "stopped" /\ app.using_mongo => app.client = "closed"
    /\ app.client = "open" /\ app.phase \in {"stopped", "failed"}
          => app.mongo_server # "up"

C31_ServedMongoThenStopped ==
    app.phase = "stopped" /\ app.using_mongo /\ app.client = "closed"

----------------------------------------------------------------------------
(* C32: on the persistent backend, after any sequence of create and update     *)
(* operations every stored record's priority_rank equals the rank of its       *)
(* stored priority (low = 1, medium = 2, high = 3, critical = 4; a record      *)
(* whose priority an update nulled holds 2, the rank of the default), and      *)
(* priority_rank never appears in an event returned to a caller.               *)

StoredRankOf(priority) ==
    IF priority = None THEN PRIORITY_RANK["medium"] ELSE PRIORITY_RANK[priority[1]]

C32_RankInStep ==
    \A i \in 1..Len(mongoDocs) :
        /\ "priority_rank" \in DOMAIN mongoDocs[i]
        /\ mongoDocs[i].priority_rank = StoredRankOf(mongoDocs[i].priority)

C32_RankHidden ==
    \A e \in ReturnedEvents(last.mongo) \cup ReturnedEvents(last.mem) :
        "priority_rank" \notin DOMAIN e

C32_RankFollowsPriority == C32_RankInStep /\ C32_RankHidden

(* An update raised a stored medium priority to critical and returned the event *)
C32_Witness ==
    /\ last.op = "update" /\ last.payload = [priority |-> Some("critical")]
    /\ last.mongo.kind = "ok"
    /\ last.mongo.event.priority = Some("critical")
    /\ \E i \in 1..Len(mongoDocs) :
          /\ mongoDocs[i]["_id"] = last.event_id
          /\ mongoDocs[i].priority_rank = 4
          /\ mongoDocs[i].created_at # mongoDocs[i].updated_at

====
